---- MODULE Spec2Model ----
(***************************************************************************)
(* Pagination and post classification of bluesky_search: the paginated     *)
(* fetches get_user_posts, search_posts, get_posts_from_bluesky_list and   *)
(* get_list_feed, run against a Bluesky API whose page responses are       *)
(* chosen nondeterministically.                                            *)
(***************************************************************************)
EXTENDS Integers, Sequences, FiniteSets, TLC

(***************************************************************************)
(* Program constants and bounds.                                           *)
(***************************************************************************)
\* the API's per-call cap, the literal 100 of every pagination loop
PageCap == 100

\* the largest limit requested
MaxLimit == 150
\* every limit from -MaxSmall to MaxSmall is requested, above it PageCap
\* and MaxLimit
MaxSmall == 2
\* page calls of one get_list_feed while loop that are followed
MaxFeedCalls == 3

\* cursor = None
NoCursor == -1
\* client._me absent or None
NoOne == "nobody"

\* the limits asked for: the small ones on both sides of zero, one full
\* page, and one that needs a second page
Limits ==
  { n \in (0 - MaxSmall)..MaxLimit :
      n <= MaxSmall \/ n = PageCap \/ n = MaxLimit }

(***************************************************************************)
(* The API's data: accounts and the raw records of a feed.  The record at  *)
(* position i of a feed is fixed by i, so that the pages served for the    *)
(* cursors the API hands out are disjoint and a request without a cursor   *)
(* gets the first page.                                                    *)
(***************************************************************************)
Accounts == <<"alice", "bob", "carol">>
Handles == {Accounts[i] : i \in 1..Len(Accounts)}

\* client._me: the session of the first account, or no session
Sessions == {Accounts[1], NoOne}

\* post.record.reply: attribute missing, attribute None, or a reply ref
ReplyShapes == <<"absent", "null", "present">>
\* post.reason: missing/None, a repost reason, or another reason
ReasonShapes == <<"none", "repost", "other">>

DidOf(h) == "did:plc:" \o h

RawPost(i) ==
  [ uri    |-> i,
    author |-> Accounts[((i - 1) % 3) + 1],
    reply  |-> ReplyShapes[(((i - 1) \div 3) % 3) + 1],
    reason |-> ReasonShapes[(((i - 1) \div 9) % 3) + 1] ]

\* the items of a page of n records served after position `from`
PageItems(from, n) == [ j \in 1..n |-> RawPost(from + j) ]

\* where the page for a request starts: no cursor means the first page
PageStart(c) == IF c = NoCursor THEN 0 ELSE c

\* the sizes of the pages the API may answer a request of `lim` items with
PageSizes(lim) ==
  IF lim >= 1 /\ lim <= PageCap THEN {0, 1, lim} ELSE {0, 1}

(***************************************************************************)
(* Classification.                                                         *)
(***************************************************************************)
\* hasattr(post, 'reason') and post.reason is not None and 'repost' in py_type
ReasonType(raw) == IF raw.reason = "repost" THEN "repost" ELSE "original"

\* hasattr(record, 'reply') and record.reply is not None
HasReply(raw) == raw.reply = "present"

\* get_user_posts: the DID the author is compared with is the session's
\* (client._me) when there is one, else the profile of handle; a failed
\* profile lookup falls back to the reason tag
TimelineType(raw, h, session, profile_ok) ==
  IF HasReply(raw) THEN "reply"
  ELSE IF session # NoOne
         THEN IF DidOf(raw.author) # DidOf(session) THEN "repost" ELSE "original"
       ELSE IF profile_ok
         THEN IF DidOf(raw.author) # DidOf(h) THEN "repost" ELSE "original"
       ELSE ReasonType(raw)

NormalizeTimeline(raw, h, session, profile_ok) ==
  [ uri       |-> raw.uri,
    author    |-> [did |-> DidOf(raw.author), handle |-> raw.author],
    post_type |-> TimelineType(raw, h, session, profile_ok) ]

(***************************************************************************)
(* Strings are sequences of symbols: one-character strings, and the fixed  *)
(* tokens "did:", "at://" and "/app.bsky.graph.list/".                     *)
(***************************************************************************)
Chars(h) ==
  CASE h = "alice" -> << "a", "l", "i", "c", "e" >>
    [] h = "bob"   -> << "b", "o", "b" >>
    [] h = "carol" -> << "c", "a", "r", "o", "l" >>

\* str.lower() on the characters that occur
LowerChar(c) ==
  CASE c = "B" -> "b"
    [] c = "O" -> "o"
    [] OTHER   -> c

Lower(s) == [ i \in 1..Len(s) |-> LowerChar(s[i]) ]

\* Python's `s in t` on strings
IsSubstring(s, t) ==
  \E i \in 0..(Len(t) - Len(s)) : SubSeq(t, i + 1, i + Len(s)) = s

\* the from_user filters a search is called with; << >> is no filter
FromUsers ==
  { << >>, << "b", "o", "b" >>, << "B", "O", "B" >>, << "o" >>,
    << "@", "b", "o", "b" >> }

\* an author filter that has to be the whole handle
AuthorIsFilter(raw, from_user) ==
  /\ from_user # << >>
  /\ Lower(from_user) = Lower(Chars(raw.author))

\* search_posts: users_of_interest is [from_user] when one is given
AuthorOfInterest(raw, from_user) ==
  /\ from_user # << >>
  /\ IsSubstring(Lower(from_user), Lower(Chars(raw.author)))

SearchType(raw, from_user) ==
  IF HasReply(raw) THEN "reply"
  ELSE IF AuthorOfInterest(raw, from_user) THEN "original"
  ELSE ReasonType(raw)

NormalizeSearch(raw, from_user) ==
  [ uri       |-> raw.uri,
    author    |-> [did |-> DidOf(raw.author), handle |-> raw.author],
    post_type |-> SearchType(raw, from_user) ]

\* get_posts_from_bluesky_list: reply ref, else the reason tag
ListType(raw) == IF HasReply(raw) THEN "reply" ELSE ReasonType(raw)

NormalizeList(raw) ==
  [ uri       |-> raw.uri,
    author    |-> [did |-> DidOf(raw.author), handle |-> raw.author],
    post_type |-> ListType(raw) ]

\* get_list_feed: post_type starts as 'post' and hasattr(record, 'reply')
\* alone makes it 'reply'
ListFeedType(raw) == IF raw.reply # "absent" THEN "reply" ELSE "post"

NormalizeListFeed(raw) ==
  [ uri       |-> raw.uri,
    author    |-> [did |-> DidOf(raw.author), handle |-> raw.author],
    post_type |-> ListFeedType(raw) ]

\* results[author_handle].append(post), in retrieval order
GroupByAuthor(ps) ==
  [ h \in { ps[i].author.handle : i \in 1..Len(ps) } |->
      SelectSeq(ps, LAMBDA p : p.author.handle = h) ]

EmptyResults == [ h \in {} |-> << >> ]

\* number of posts of a ResultSet
RECURSIVE SumLen(_, _)
SumLen(rs, keys) ==
  IF keys = {} THEN 0
  ELSE LET h == CHOOSE k \in keys : TRUE
       IN  Len(rs[h]) + SumLen(rs, keys \ {h})

ResultSize(rs) == SumLen(rs, DOMAIN rs)

(***************************************************************************)
(* sanitize_uri_component and list addresses.                              *)
(***************************************************************************)
\* what str.strip() strips
WhiteSpace == { " ", "\t", "\n" }
QuoteChars == { "\"", "'" }
\* [\x00-\x1F\x7F]
ControlChars == { "\t", "\n", "\\x01" }
\* a character of \x80-\x9F, which is neither
C1Chars == { "\\x80" }
\* [a-zA-Z0-9]
AlnumChars ==
  { "a", "b", "c", "d", "e", "i", "l", "o", "p", "r", "x", "1", "2",
    "B", "O" }

RECURSIVE LStrip(_, _)
LStrip(s, cs) ==
  IF s # << >> /\ Head(s) \in cs THEN LStrip(Tail(s), cs) ELSE s

RECURSIVE RStrip(_, _)
RStrip(s, cs) ==
  IF s # << >> /\ s[Len(s)] \in cs
    THEN RStrip(SubSeq(s, 1, Len(s) - 1), cs) ELSE s

\* str.strip(chars)
Strip(s, cs) == RStrip(LStrip(s, cs), cs)

\* re.sub(r'[...]+', '', s)
RemoveAll(s, cs) == SelectSeq(s, LAMBDA c : c \notin cs)

\* a cleaning that strips the ends and leaves the inside as it is
StripEnds(input_str) ==
  Strip(Strip(Strip(Strip(input_str, WhiteSpace), {"\""}), {"'"}), WhiteSpace)

sanitize_uri_component(input_str) ==
  IF input_str = << >> THEN << >>
  ELSE LET stripped ==
             Strip(Strip(Strip(Strip(input_str, WhiteSpace), {"\""}), {"'"}),
                   WhiteSpace)
       IN  RemoveAll(RemoveAll(stripped, QuoteChars), ControlChars)

\* re.sub(r'[^a-zA-Z0-9]+', '', list_id)
AlnumOnly(s) == SelectSeq(s, LAMBDA c : c \in AlnumChars)

DidPrefix == << "did:" >>
\* handle.startswith('did:')
IsDid(s) == Len(s) >= Len(DidPrefix) /\ SubSeq(s, 1, Len(DidPrefix)) = DidPrefix

\* the DID of an account as the profile lookup returns it
DidChars(h) == DidPrefix \o Chars(h)

\* the account a handle string names, NoOne when there is none
AccountOf(s) ==
  IF \E h \in Handles : Chars(h) = s
    THEN CHOOSE h \in Handles : Chars(h) = s
    ELSE NoOne

AtScheme == << "at://" >>
ListCollection == << "/app.bsky.graph.list/" >>

\* f"at://{profile_did}/app.bsky.graph.list/{list_id}" and its variants
ListUri(scheme, did, id) == scheme \o did \o ListCollection \o id

HasQuote(s) == \E i \in 1..Len(s) : s[i] \in QuoteChars

NoUri == << >>

\* Python's //, the for-loop trip counts
FloorDiv(a, b) == IF b > 0 THEN a \div b ELSE (0 - a) \div (0 - b)
CeilCalls(n) == (n + (PageCap - 1)) \div PageCap
Max(a, b) == IF a >= b THEN a ELSE b
Min(a, b) == IF a <= b THEN a ELSE b

(***************************************************************************)
(* Inputs.                                                                 *)
(***************************************************************************)
\* at most MaxMembers accounts are members of a list
MaxMembers == 2

MemberLists == { SubSeq(Accounts, 1, k) : k \in 0..MaxMembers }

\* the feeds served have no malformed record, or one at MalformedAt
MalformedAt == 2

MalformedSets == { {}, {MalformedAt} }

\* (owner, list_id) arguments of the list fetches
ListTargets ==
  { << Chars("bob"), << "x", "1" >> >>,
    << DidChars("bob"), << "\"", "x", "-", "1", "\"" >> >>,
    << DidChars("bob") \o << "'" >>, << "x", "'", "\"", "1" >> >> }

(***************************************************************************)
(* One raw record and what each fetch extracts from it: links, mentions,   *)
(* images and the reply target.  A text is a sequence of words, a parent   *)
(* reference a sequence of symbols.                                        *)
(***************************************************************************)
\* a record carries at most MaxFacets link and mention annotations
MaxFacets == 2

UrlA == "https://a.example/x"
UrlB == "https://b.example/y"
\* a word @handle, and the handle in it
LeadingHandle == "@carol.test"
HandleInText == "carol.test"
\* the handle the lookups return for the parent's DID
ParentHandle == "zed.test"

\* the words url_pattern matches
IsUrl(w) == w \in { UrlA, UrlB }

\* post.record.text
Texts ==
  { << >>, << "hi" >>, << UrlA >>, << UrlA, "and", UrlA >>, << UrlB, UrlA >>,
    << LeadingHandle, "hi" >>, << LeadingHandle, UrlA >>,
    << "hi", LeadingHandle >> }

\* hasattr(feature, 'handle') is false
NoHandle == ""

\* a feature of a facet: a link with its uri, or a mention with its did
\* and, when it has one, its handle
Link(u) == [ kind |-> "link", ref |-> u, handle |-> NoHandle ]
Mention(d, h) == [ kind |-> "mention", ref |-> d, handle |-> h ]

Annotations ==
  { Link(UrlA), Link(UrlB), Mention("did:plc:dave", "dave.test"),
    Mention("did:plc:erin", NoHandle) }

\* post.record.facets, one feature per facet
Facets == UNION { [ 1..k -> Annotations ] : k \in 0..MaxFacets }

\* the attribute under which the objects of the API carry their type tag
TagAttrs == { "py_type", "$type" }

\* post.record.reply.parent.uri, and a reply ref without it
ParentUri == << "at://", "did:plc:zed", "/app.bsky.feed.post/", "9" >>
NoParent == << >>

\* the lookups search_posts tries for the parent's handle, in order
AuxMethods == << "get_profile", "getProfile", "get_post_thread" >>

\* resolver: the first of them that does not raise, 0 when all raise
Rec(author, reply, parent, reason, text, facets, tag, image, resolver) ==
  [ uri |-> 1, author |-> author, reply |-> reply, parent |-> parent,
    reason |-> reason, text |-> text, facets |-> facets, tag |-> tag,
    image |-> image, resolver |-> resolver ]

\* a post that replies to nothing and carries no annotation
PlainRecord ==
  [ Rec("alice", "absent", NoParent, "none", << "hi" >>, << >>, "py_type",
        FALSE, 0) EXCEPT !.uri = 2 ]

ReplyRecords ==
  { Rec("bob", "present", p, "none", t, f, g, FALSE, k) :
      p \in { ParentUri, NoParent }, t \in Texts, f \in Facets,
      g \in TagAttrs, k \in 0..Len(AuxMethods) }

OtherRecords ==
  { Rec("bob", r, NoParent, "none", t, f, g, img, 0) :
      r \in { "absent", "null" }, t \in { << >>, << UrlA >> },
      f \in { << >>, << Link(UrlA) >>,
              << Mention("did:plc:erin", NoHandle) >> },
      g \in TagAttrs, img \in BOOLEAN }

Records == ReplyRecords \cup OtherRecords

Range(f) == { f[i] : i \in DOMAIN f }

\* post.get(k, []) on a normalized post
Field(post, k) == IF k \in DOMAIN post THEN post[k] ELSE << >>

\* post_data[k] = v, set only when v is not empty
Optional(k, v) == IF v # << >> THEN k :> v ELSE << >>

\* the uris of the link features, read when the type tag is under attr
FacetLinks(rec, attr) ==
  IF rec.tag # attr THEN << >>
  ELSE LET ls == SelectSeq(rec.facets, LAMBDA a : a.kind = "link")
       IN  [ i \in 1..Len(ls) |-> ls[i].ref ]

\* the mention features: feature.handle if it has one, else feature.did
FacetMentions(rec, attr) ==
  IF rec.tag # attr THEN << >>
  ELSE LET ms == SelectSeq(rec.facets, LAMBDA a : a.kind = "mention")
       IN  [ i \in 1..Len(ms) |->
               IF ms[i].handle # NoHandle THEN ms[i].handle ELSE ms[i].ref ]

\* re.findall(url_pattern, text)
extract_urls_from_text(text) == SelectSeq(text, IsUrl)

\* for url in regex_urls: if url not in urls: urls.append(url)
RECURSIVE AppendNew(_, _)
AppendNew(urls, regex_urls) ==
  IF regex_urls = << >> THEN urls
  ELSE AppendNew(IF Head(regex_urls) \in Range(urls) THEN urls
                 ELSE Append(urls, Head(regex_urls)),
                 Tail(regex_urls))

ExtractUrls(rec, attr) ==
  AppendNew(FacetLinks(rec, attr), extract_urls_from_text(rec.text))

\* the getBlob url of an image embed with a cid
ImageUrls(rec) == IF rec.image THEN << "getBlob" >> ELSE << >>

\* get_user_posts: images, urls and mentions are stored when not empty
NormalizeUserRecord(rec, session) ==
  NormalizeTimeline(rec, rec.author, session, TRUE)
    @@ Optional("images", ImageUrls(rec))
    @@ Optional("urls", ExtractUrls(rec, "py_type"))
    @@ Optional("mentions", FacetMentions(rec, "py_type"))

\* re.search(r'at://([^/]+)', parent_uri)
OwnerOfUri(u) ==
  IF Len(u) >= 2 /\ u[1] = "at://" THEN << u[2] >> ELSE << >>

\* text.startswith('@') and re.match(r'^@([\w.-]+\.\w+(?:\.\w+)?)', text)
LeadingHandleOf(text) ==
  IF text # << >> /\ text[1] = LeadingHandle THEN HandleInText ELSE ""

\* lookups whose exception leaves the normalization
AuxLookupsUncaught(resolver) ==
  [ calls  |-> IF resolver = 0 THEN AuxMethods
               ELSE SubSeq(AuxMethods, 1, resolver),
    handle |-> IF resolver = 0 THEN "" ELSE ParentHandle,
    raised |-> resolver = 0 ]

\* the lookups by the parent's DID: each in its own try, the next one made
\* when the one before raised
AuxLookups(resolver) ==
  [ calls  |-> IF resolver = 0 THEN AuxMethods
               ELSE SubSeq(AuxMethods, 1, resolver),
    handle |-> IF resolver = 0 THEN "" ELSE ParentHandle,
    raised |-> FALSE ]

\* search_posts on a reply: replied_to_id from the parent reference,
\* replied_to_handle from the head of the text, else from the lookups; the
\* later fallback reads post_data.get('mentions'), which is not stored yet
SearchReply(rec, post_data) ==
  LET id      == IF rec.parent # NoParent THEN OwnerOfUri(rec.parent)
                 ELSE << >>
      leading == LeadingHandleOf(rec.text)
      asked   == id # << >> /\ leading = ""
      looked  == AuxLookups(rec.resolver)
      first   == IF id = << >> THEN ""
                 ELSE IF leading # "" THEN leading ELSE looked.handle
      raw_mentions == Field(post_data, "mentions")
      final   == IF (first = "" \/ id = << >>) /\ rec.text # << >>
                   THEN IF first = "" /\ leading # "" THEN leading
                        ELSE IF first = "" /\ raw_mentions # << >>
                          THEN raw_mentions[1]
                        ELSE first
                   ELSE first
  IN  [ fields |-> [ replied_to_handle |-> final, replied_to_id |-> id ],
        calls  |-> IF asked THEN looked.calls ELSE << >>,
        raised |-> asked /\ looked.raised ]

\* search_posts: urls, mentions and images are always stored
NormalizeSearchRecord(rec, fu) ==
  LET post_data == NormalizeSearch(rec, fu)
                     @@ Optional("images", ImageUrls(rec))
      reply == SearchReply(rec, post_data)
  IN  [ post   |-> [ urls     |-> ExtractUrls(rec, "py_type"),
                     mentions |-> FacetMentions(rec, "py_type"),
                     images   |-> Field(post_data, "images") ]
                     @@ (IF HasReply(rec) THEN reply.fields ELSE << >>)
                     @@ post_data,
        calls  |-> IF HasReply(rec) THEN reply.calls ELSE << >>,
        raised |-> HasReply(rec) /\ reply.raised ]

\* get_posts_from_bluesky_list: urls and mentions start empty,
\* replied_to_id is the parent reference
NormalizeListRecord(rec) ==
  [ urls          |-> ExtractUrls(rec, "py_type"),
    mentions      |-> FacetMentions(rec, "py_type"),
    replied_to_id |-> IF HasReply(rec) THEN rec.parent ELSE << >> ]
    @@ Optional("images", ImageUrls(rec))
    @@ NormalizeList(rec)

\* get_list_feed: the features and the embed are looked at when their type
\* tag is under '$type'
NormalizeListFeedRecord(rec) ==
  [ urls          |-> ExtractUrls(rec, "$type"),
    mentions      |-> FacetMentions(rec, "$type"),
    images        |-> IF rec.tag = "$type" THEN ImageUrls(rec) ELSE << >>,
    replied_to_id |-> IF rec.reply = "present" THEN rec.parent ELSE << >> ]
    @@ NormalizeListFeed(rec)

\* an array of the external representation, and null
JsonArray(v) == [ null |-> FALSE, items |-> v ]
JsonNull == [ null |-> TRUE, items |-> << >> ]

\* the columns every exporter of the package writes from the post itself
\* and from its author
CommonColumns(post) ==
  [ uri           |-> post.uri,
    author_did    |-> post.author.did,
    author_handle |-> post.author.handle,
    post_type     |-> post.post_type ]

\* save_results_to_json (package): post.get(k, [])
ExportedPost(post) ==
  [ urls     |-> JsonArray(Field(post, "urls")),
    images   |-> JsonArray(Field(post, "images")),
    mentions |-> JsonArray(Field(post, "mentions")) ]
    @@ CommonColumns(post)

\* the items of an array each in double quotes, sep between them
RECURSIVE Joined(_, _)
Joined(v, sep) ==
  IF v = << >> THEN << >>
  ELSE << "\"", Head(v), "\"" >>
         \o (IF Tail(v) = << >> THEN << >> ELSE << sep >> \o Joined(Tail(v), sep))

\* an array written as the text of one cell
ArrayText(v, sep) == [ null |-> FALSE, text |-> << "[" >> \o Joined(v, sep) \o << "]" >> ]

\* post.get('replied_to_id', ''), post.get('replied_to_handle', '')
RepliedToId(post) ==
  "replied_to_id" :> Field(post, "replied_to_id")
RepliedToHandle(post) ==
  "replied_to_handle" :>
    (IF "replied_to_handle" \in DOMAIN post THEN post["replied_to_handle"] ELSE "")

\* save_results_to_csv: flat_post
CsvRow(post) ==
  [ k \in { "urls", "images", "mentions" } |-> ArrayText(Field(post, k), ",") ]
    @@ RepliedToHandle(post) @@ RepliedToId(post) @@ CommonColumns(post)

\* save_results_to_parquet: flat_post
ParquetRow(post) ==
  [ k \in { "urls", "images", "mentions" } |-> ArrayText(Field(post, k), ", ") ]
    @@ RepliedToId(post) @@ CommonColumns(post)

\* _flatten_results (bluesky_posts.py): None when the field is missing or
\* empty
FlattenedPost(post) ==
  [ k \in { "urls", "images", "mentions" } |->
      IF Field(post, k) # << >> THEN JsonArray(post[k]) ELSE JsonNull ]

(***************************************************************************)
(* List locators and parse_bluesky_list_url.  A locator is a sequence of   *)
(* symbols, as every string here is; the symbols of SlashSymbols are the   *)
(* ones with a / in them.                                                  *)
(***************************************************************************)
\* a locator chains at most MaxShapes list references
MaxShapes == 2

WebHost == "bsky.app/profile/"
ListsPart == "/lists/"
SlashSymbols ==
  { "https://", WebHost, "example.org/profile/", ListsPart, "/" }
    \cup Range(AtScheme) \cup Range(ListCollection)

\* https://bsky.app/profile/<owner>/lists/<id>, and the same on another site
WebUrl(owner, id) == << "https://", WebHost >> \o owner \o << ListsPart >> \o id
OtherSiteUrl(owner, id) ==
  << "https://", "example.org/profile/" >> \o owner \o << ListsPart >> \o id

\* the four references to the list (owner, id)
References(owner, id) ==
  { WebUrl(owner, id), OtherSiteUrl(owner, id),
    ListUri(AtScheme, owner, id), ListUri(<< >>, owner, id) }

UrlOwners ==
  { Chars("bob"), DidChars("bob"), << "\"" >> \o Chars("bob") \o << "\"" >>,
    << " " >> \o Chars("bob"), << >> }
UrlIds == { << "x", "1" >>, << "x", "1", "\n" >>, << >> }

\* k references to different lists one after the other
RECURSIVE Chains(_)
Chains(k) ==
  IF k = 1 THEN References(DidChars("bob"), << "x", "1" >>)
  ELSE { c \o sep \o r :
           c \in Chains(k - 1), sep \in { << " " >>, << "/" >> },
           r \in References(Chars("carol"), << "2" >>) }

\* a locator as pasted: bare, in double quotes, or with blanks around it
Pasted(u) == { u, << "\"" >> \o u \o << "\"" >>, << " " >> \o u \o << "\n" >> }

Locators ==
  UNION { Pasted(u) :
            u \in UNION { References(o, i) : o \in UrlOwners, i \in UrlIds }
                    \cup UNION { Chains(k) : k \in 1..MaxShapes } }

\* where the run of [^/] symbols that starts at i ends, i - 1 when empty
RECURSIVE RunEnd(_, _)
RunEnd(url, i) ==
  IF i <= Len(url) /\ url[i] \notin SlashSymbols THEN RunEnd(url, i + 1)
  ELSE i - 1

NoGroups == [ shape |-> "none", group1 |-> << >>, group2 |-> << >> ]

\* ([^/]+)<sep>([^/]+) with the first group starting at p
TwoGroups(url, p, sep, shape) ==
  LET e == RunEnd(url, p)
      f == RunEnd(url, e + 2)
  IN  IF e >= p /\ e + 1 <= Len(url) /\ url[e + 1] = sep /\ f >= e + 2
        THEN [ shape |-> shape, group1 |-> SubSeq(url, p, e),
               group2 |-> SubSeq(url, e + 2, f) ]
        ELSE NoGroups

\* the three patterns, matched at position i
MatchAt(url, i, shape) ==
  CASE shape = "browser" ->
         IF url[i] = WebHost THEN TwoGroups(url, i + 1, ListsPart, shape)
         ELSE NoGroups
    [] shape = "at_uri" ->
         IF url[i] = AtScheme[1]
           THEN TwoGroups(url, i + 1, ListCollection[1], shape)
         ELSE NoGroups
    [] shape = "did_uri" ->
         IF url[i] = DidPrefix[1] /\ RunEnd(url, i) > i
           THEN TwoGroups(url, i, ListCollection[1], shape)
         ELSE NoGroups

\* re.search(pattern, url): the leftmost match, from position i on
RECURSIVE re_search(_, _, _)
re_search(url, i, shape) ==
  IF i > Len(url) THEN NoGroups
  ELSE IF MatchAt(url, i, shape) # NoGroups THEN MatchAt(url, i, shape)
  ELSE re_search(url, i + 1, shape)

\* group(n).strip().strip('"').strip("'")
StripGroup(g) == Strip(Strip(Strip(g, WhiteSpace), { "\"" }), { "'" })

\* the dictionary parse_bluesky_list_url returns, shape "none" for None
ListInfo(url, m) ==
  [ input |-> url, shape |-> m.shape, handle |-> StripGroup(m.group1),
    list_id |-> StripGroup(m.group2) ]

\* the patterns tried with the protocol URI first
ParseAtUriFirst(url) ==
  IF re_search(url, 1, "at_uri") # NoGroups
    THEN ListInfo(url, re_search(url, 1, "at_uri"))
  ELSE IF re_search(url, 1, "browser") # NoGroups
    THEN ListInfo(url, re_search(url, 1, "browser"))
  ELSE ListInfo(url, re_search(url, 1, "did_uri"))

parse_bluesky_list_url(url) ==
  IF re_search(url, 1, "browser") # NoGroups
    THEN ListInfo(url, re_search(url, 1, "browser"))
  ELSE IF re_search(url, 1, "at_uri") # NoGroups
    THEN ListInfo(url, re_search(url, 1, "at_uri"))
  ELSE ListInfo(url, re_search(url, 1, "did_uri"))

\* nothing parsed yet
Unparsed ==
  [ input |-> << >>, shape |-> "unparsed", handle |-> << >>,
    list_id |-> << >> ]

\* a printed line: its label and the value printed after it
Line(label, value) == [ label |-> label, value |-> value ]

SupportedFormats ==
  << "https://bsky.app/profile/user.bsky.social/lists/123abc",
     "at://did:plc:xxx/app.bsky.graph.list/123abc",
     "did:plc:xxx/app.bsky.graph.list/123abc" >>

\* a parse that prints nothing
NoReport(url) == << >>

\* what parse_bluesky_list_url prints before it returns None
UnrecognizedReport(url) ==
  << Line("Unrecognized list URL format:", url) >>
    \o [ i \in 1..Len(SupportedFormats) |->
           Line("Supported format", << SupportedFormats[i] >>) ]

ParsePrints(info) ==
  IF info.shape = "none" THEN UnrecognizedReport(info.input) ELSE << >>

(***************************************************************************)
(* State.                                                                  *)
(***************************************************************************)
VARIABLES
  me,               \* client._me: the logged-in account, or NoOne
  input_str,        \* the argument of sanitize_uri_component
  outputs,          \* what it returned, and what it returned for that
  pc,               \* position of the running operation
  op,               \* the operation the caller invoked
  requested,        \* the limit argument of that operation
  handle,           \* the handle argument of the running timeline fetch
  profile_ok,       \* whether the profile lookups made while classifying
                    \* timeline posts succeed (none is made when me is known)
  from_user,        \* kwargs['from_user'] of a search, << >> when absent
  original_limit,   \* limit of the running pagination
  api_calls_needed,
  api_call_limit,
  call_num,         \* iterations of the pagination loop started
  cursor,
  posts_collected,
  posts,            \* posts accumulated by the running pagination
  pages,            \* page calls issued, each with the response it got
  list_uri,         \* the list address the page calls use
  lookups,          \* get_list calls issued, each with its outcome
  printed,          \* list addresses the operation has printed
  list_handle,      \* the handle argument of the list operation
  list_id,          \* its list_id argument
  accepted,         \* the addresses under which the API knows that list
  targets,          \* handles get_posts_from_users has still to fetch
  members,          \* handles the list-membership lookup returned
  fetches,          \* get_user_posts calls made, each with its arguments
                    \* and the outcome of its profile lookup
  malformed,        \* feed positions whose record has no text
  results,          \* the ResultSet built or returned
  returned,         \* the list of posts returned
  outcome,          \* "none", "ok", "error" (an except path returned)
  record,           \* the raw record whose normalization is followed
  path,             \* the fetch that normalized it, "none" before
  post_list,        \* the normalized posts of the page it heads
  aux_calls,        \* the lookups made to find whom it replies to
  exporter,         \* the exporter that serialized the post, "none" before
  exported,         \* urls, images and mentions as that exporter wrote them
  list_url,         \* the locator given to get_posts_from_bluesky_list_url
  list_info,        \* what parse_bluesky_list_url made of it
  reports,          \* the lines printed about the locator
  kwargs,           \* the keyword arguments a search was called with
  search_params,    \* what the search puts into every page request besides
                    \* limit and cursor
  argv,             \* the command line main() is run with
  called,           \* the fetcher methods main() has called, in order
  exit_code         \* what main() returned, NoExit while it runs

args == << op, requested, handle, profile_ok, from_user, original_limit,
          malformed >>
loop == << api_calls_needed, api_call_limit, call_num, cursor,
           posts_collected, posts >>
listv == << list_uri, lookups, printed, list_handle, list_id, accepted >>
out == << results, returned, outcome >>

normv == << record, path, post_list, aux_calls, exporter, exported >>
locator == << list_url, list_info, reports >>

searchv == << kwargs, search_params >>
cliv == << argv, called, exit_code >>

env == << me, input_str, outputs, normv, locator, searchv, cliv >>

users == << targets, members, fetches >>

vars == << env, pc, args, loop, pages, listv, users, out >>

\* a page call as the API sees it (api, target, limit, cursor), the response
\* it got (n items, next cursor, or an error), and the fetch it belongs to
\* (requested total, posts collected before the call)
PageCall(api, target, lim, c, n, next, err, total, before) ==
  [ api |-> api, target |-> target, limit |-> lim, cursor |-> c,
    n |-> n, next |-> next, err |-> err, total |-> total, before |-> before ]

Lookup(addr, ok) == [ addr |-> addr, ok |-> ok ]

\* no keyword argument, an empty dict
NoKwargs == << >>

\* the state of a fetcher before any call
Fresh ==
  /\ pc = "idle"
  /\ op = "none"
  /\ requested = 0
  /\ handle = NoOne
  /\ profile_ok = FALSE
  /\ from_user = << >>
  /\ kwargs = NoKwargs
  /\ search_params = NoKwargs
  /\ original_limit = 0
  /\ api_calls_needed = 0
  /\ api_call_limit = 0
  /\ call_num = 0
  /\ cursor = NoCursor
  /\ posts_collected = 0
  /\ posts = << >>
  /\ pages = << >>
  /\ list_uri = NoUri
  /\ lookups = << >>
  /\ printed = << >>
  /\ list_handle = << >>
  /\ list_id = << >>
  /\ accepted = {}
  /\ targets = << >>
  /\ members = << >>
  /\ fetches = << >>
  /\ malformed = {}
  /\ results = EmptyResults
  /\ returned = << >>
  /\ outcome = "none"

\* no record is being followed
NoRecord ==
  /\ record = PlainRecord
  /\ path = "none"
  /\ post_list = << >>
  /\ aux_calls = << >>
  /\ exporter = "none"
  /\ exported = << >>

\* no locator was given
NoLocator ==
  /\ list_url = << >>
  /\ list_info = Unparsed
  /\ reports = << >>

\* main() is not run
NoExit == 0 - 1
NoCommand ==
  /\ argv = << >>
  /\ called = << >>
  /\ exit_code = NoExit

Init ==
  /\ me \in Sessions
  /\ NoCommand
  /\ input_str = << >>
  /\ outputs = << >>
  /\ NoRecord
  /\ NoLocator
  /\ Fresh

\* an except path or an early return hands back an empty result
ReturnEmpty(how) ==
  /\ pc' = "done"
  /\ results' = EmptyResults
  /\ returned' = << >>
  /\ outcome' = how

(***************************************************************************)
(* get_user_posts                                                          *)
(***************************************************************************)
\* the first lines of get_user_posts: profile lookup (its failure is
\* swallowed by the client wrapper), loop variables, api_calls_needed; ok
\* is the outcome of the profile lookups made while classifying, which
\* happen only without a session
UserFetch(h, limit, ok) == [ handle |-> h, limit |-> limit, profile |-> ok ]

StartUserPosts(h, limit, ok) ==
  /\ me # NoOne => ok
  /\ pc' = "user_loop"
  /\ handle' = h
  /\ fetches' = Append(fetches, UserFetch(h, limit, ok))
  /\ profile_ok' = ok
  /\ original_limit' = limit
  /\ api_calls_needed' = Max(1, CeilCalls(limit))
  /\ api_call_limit' = PageCap
  /\ call_num' = 0
  /\ cursor' = NoCursor
  /\ posts_collected' = 0
  /\ posts' = << >>

CallUserPosts(h, limit, ok, bad) ==
  /\ pc = "idle"
  /\ op' = "get_user_posts"
  /\ requested' = limit
  /\ malformed' = bad
  /\ StartUserPosts(h, limit, ok)
  /\ UNCHANGED << env, from_user, pages, listv, targets, members, out >>

UserCallLimit == Min(PageCap, original_limit - posts_collected)

\* post.record.text raises for a record without text
WellFormed(i) == i \notin malformed

\* the normalization of the n records after position from raises
PageRaises(from, n) == \E i \in (from + 1)..(from + n) : ~WellFormed(i)

\* one iteration of the loop whose page call answers with n items; a record
\* whose normalization raises is counted and skipped
UserPage(n, has_cursor) ==
  /\ pc = "user_loop"
  /\ call_num < api_calls_needed
  /\ UserCallLimit > 0
  /\ n \in PageSizes(UserCallLimit)
  /\ LET from  == PageStart(cursor)
         next  == IF has_cursor THEN from + n ELSE NoCursor
         items == PageItems(from, n)
         good  == SelectSeq([ j \in 1..n |-> from + j ], WellFormed)
         page  == [ j \in 1..Len(good) |->
                      NormalizeTimeline(RawPost(good[j]), handle, me,
                                        profile_ok) ]
     IN  /\ pages' = Append(pages,
                        PageCall("get_author_feed", handle, UserCallLimit,
                                 cursor, n, next, FALSE, original_limit,
                                 posts_collected))
         /\ cursor' = next
         /\ call_num' = call_num + 1
         /\ IF n = 0
              THEN /\ pc' = "user_exit"
                   /\ UNCHANGED << posts, posts_collected >>
              ELSE /\ posts' = posts \o page
                   /\ posts_collected' = posts_collected + n
                   /\ pc' = "user_loop"
  /\ UNCHANGED << env, args, api_calls_needed, api_call_limit, listv,
                  users, out >>

\* the page call raises: the inner except prints and breaks
UserPageError ==
  /\ pc = "user_loop"
  /\ call_num < api_calls_needed
  /\ UserCallLimit > 0
  /\ pages' = Append(pages,
                PageCall("get_author_feed", handle, UserCallLimit, cursor,
                         0, NoCursor, TRUE, original_limit, posts_collected))
  /\ call_num' = call_num + 1
  /\ pc' = "user_exit"
  /\ UNCHANGED << env, args, api_calls_needed, api_call_limit, cursor,
                  posts_collected, posts, listv, users, out >>

\* the loop is over: range exhausted, current_call_limit <= 0, or break
UserLoopOver ==
  \/ pc = "user_exit"
  \/ /\ pc = "user_loop"
     /\ (call_num >= api_calls_needed \/ UserCallLimit <= 0)

\* get_user_posts called by the caller returns posts
UserReturn ==
  /\ UserLoopOver
  /\ op = "get_user_posts"
  /\ pc' = "done"
  /\ returned' = posts
  /\ outcome' = "ok"
  /\ UNCHANGED << env, args, loop, pages, listv, users, results >>

(***************************************************************************)
(* get_posts_from_users, as the list-membership fallback calls it          *)
(***************************************************************************)
\* a store that keeps the key of a user without posts
StoreAlways(rs, h, ps) ==
  [ k \in (DOMAIN rs) \cup {h} |-> IF k = h THEN ps ELSE rs[k] ]

\* results[clean_handle] = user_posts, when there are any
StoreUserPosts(rs, h, ps) ==
  IF ps = << >> THEN rs
  ELSE [ k \in (DOMAIN rs) \cup {h} |-> IF k = h THEN ps ELSE rs[k] ]

\* get_user_posts returns to get_posts_from_users, which stores the posts
\* and fetches the next handle
UsersNext ==
  /\ UserLoopOver
  /\ op # "get_user_posts"
  /\ targets # << >>
  /\ results' = StoreUserPosts(results, handle, posts)
  /\ targets' = Tail(targets)
  /\ StartUserPosts(Head(targets), original_limit, profile_ok)
  /\ UNCHANGED << env, op, requested, from_user, malformed, pages, listv,
                  members, returned, outcome >>

\* ... or returns results after the last handle
UsersReturn ==
  /\ UserLoopOver
  /\ op # "get_user_posts"
  /\ targets = << >>
  /\ results' = StoreUserPosts(results, handle, posts)
  /\ pc' = "done"
  /\ outcome' = "ok"
  /\ UNCHANGED << env, args, loop, pages, listv, users, returned >>

(***************************************************************************)
(* search_posts                                                            *)
(***************************************************************************)
\* the sort options a caller passes: none, 'latest' or 'top'
SortOptions == { NoKwargs, "sort" :> "latest", "sort" :> "top" }

\* search_params as it is built before the loop: the query, and the author
\* filter when one is given
SearchParams(fu, kw) ==
  ("q" :> << "q" >>) @@ Optional("from", Strip(fu, { "@" }))

CallSearchPosts(limit, fu, bad, kw) ==
  /\ pc = "idle"
  /\ pc' = "search_loop"
  /\ op' = "search_posts"
  /\ requested' = limit
  /\ malformed' = bad
  /\ from_user' = fu
  /\ kwargs' = kw
  /\ search_params' = SearchParams(fu, kw)
  /\ original_limit' = limit
  /\ api_calls_needed' = Max(1, CeilCalls(limit))
  /\ api_call_limit' = PageCap
  /\ call_num' = 0
  /\ cursor' = NoCursor
  /\ posts_collected' = 0
  /\ posts' = << >>
  /\ UNCHANGED << me, input_str, outputs, normv, locator, cliv, handle,
                  profile_ok, pages, listv, users, out >>

SearchCallLimit == Min(PageCap, original_limit - posts_collected)

\* one iteration of the loop whose page call answers with n posts
SearchPage(n, has_cursor) ==
  /\ pc = "search_loop"
  /\ call_num < api_calls_needed
  /\ SearchCallLimit > 0
  /\ n \in PageSizes(SearchCallLimit)
  /\ ~PageRaises(PageStart(cursor), n)
  /\ LET from  == PageStart(cursor)
         next  == IF has_cursor THEN from + n ELSE NoCursor
         items == PageItems(from, n)
         page_posts == [ j \in 1..n |-> NormalizeSearch(items[j], from_user) ]
     IN  /\ pages' = Append(pages,
                        PageCall("search_posts", "q", SearchCallLimit, cursor,
                                 n, next, FALSE, original_limit,
                                 posts_collected))
         /\ cursor' = next
         /\ call_num' = call_num + 1
         /\ IF n = 0
              THEN /\ pc' = "search_exit"
                   /\ UNCHANGED << posts, posts_collected >>
              ELSE /\ posts' = posts \o page_posts
                   /\ posts_collected' = posts_collected + Len(page_posts)
                   /\ pc' = IF \/ next = NoCursor
                               \/ posts_collected + Len(page_posts)
                                    >= original_limit
                            THEN "search_exit" ELSE "search_loop"
  /\ UNCHANGED << env, args, api_calls_needed, api_call_limit, listv,
                  users, out >>

\* the page call answers with n posts of which one has no text: no try
\* encloses the normalization but the outer one, whose except returns []
SearchPageRaises(n, has_cursor) ==
  /\ pc = "search_loop"
  /\ call_num < api_calls_needed
  /\ SearchCallLimit > 0
  /\ n \in PageSizes(SearchCallLimit)
  /\ PageRaises(PageStart(cursor), n)
  /\ pages' = Append(pages,
                PageCall("search_posts", "q", SearchCallLimit, cursor, n,
                         IF has_cursor THEN PageStart(cursor) + n
                         ELSE NoCursor,
                         FALSE, original_limit, posts_collected))
  /\ cursor' = IF has_cursor THEN PageStart(cursor) + n ELSE NoCursor
  /\ call_num' = call_num + 1
  /\ ReturnEmpty("error")
  /\ UNCHANGED << env, args, api_calls_needed, api_call_limit,
                  posts_collected, posts, listv, users >>

\* the page call raises: only the outer except catches it, which returns []
SearchPageError ==
  /\ pc = "search_loop"
  /\ call_num < api_calls_needed
  /\ SearchCallLimit > 0
  /\ pages' = Append(pages,
                PageCall("search_posts", "q", SearchCallLimit, cursor,
                         0, NoCursor, TRUE, original_limit, posts_collected))
  /\ call_num' = call_num + 1
  /\ ReturnEmpty("error")
  /\ UNCHANGED << env, args, api_calls_needed, api_call_limit, cursor,
                  posts_collected, posts, listv, users >>

SearchReturn ==
  /\ \/ pc = "search_exit"
     \/ /\ pc = "search_loop"
        /\ (call_num >= api_calls_needed \/ SearchCallLimit <= 0)
  /\ pc' = "done"
  /\ returned' = posts
  /\ outcome' = "ok"
  /\ UNCHANGED << env, args, loop, pages, listv, users, results >>

(***************************************************************************)
(* get_posts_from_bluesky_list                                             *)
(***************************************************************************)
\* the DID the list address is built from: the owner argument when it is a
\* DID, else the DID of the profile the lookup returned
ProfileDid(owner) ==
  IF IsDid(owner) THEN owner ELSE DidChars(AccountOf(owner))

\* the lookup client.get_profile(actor=handle) raises unless the API knows
\* the handle and answers
Resolved(owner, prof_ok) ==
  IsDid(owner) \/ (prof_ok /\ AccountOf(owner) # NoOne)

\* list_uri after the quote check of the canonical address
CanonicalUri(owner, id) ==
  LET uri == ListUri(AtScheme, sanitize_uri_component(ProfileDid(owner)),
                     sanitize_uri_component(id))
  IN  IF HasQuote(uri) THEN RemoveAll(uri, QuoteChars) ELSE uri

EndsWithQuote(uri) == uri # << >> /\ uri[Len(uri)] = "\""

\* list_uri after the first lookup failed
RetryUri(uri) ==
  IF EndsWithQuote(uri) THEN SubSeq(uri, 1, Len(uri) - 1) ELSE uri

CleanDid(owner) ==
  sanitize_uri_component(sanitize_uri_component(ProfileDid(owner)))
CleanListId(id) ==
  sanitize_uri_component(sanitize_uri_component(id))
AltUri(owner, id) ==
  ListUri(<< >>, CleanDid(owner), CleanListId(id))
\* final_list_id and final_uri as lines 149-152 are written to compute them
FinalListId(id) == AlnumOnly(sanitize_uri_component(id))
FinalUri(owner, id) ==
  ListUri(<< >>, CleanDid(owner), FinalListId(id))

\* the addresses under which the API may know the list
ListAddresses(owner, id) ==
  { CanonicalUri(owner, id), AltUri(owner, id), FinalUri(owner, id) }

\* the get_list calls of the retry chain, in order, when the API knows the
\* list under the addresses of known.  After the address without at:// has
\* failed, line 149 reads re, which is a local name of the function (line
\* 295 imports it inside the pagination loop) and is not bound yet: the
\* statement raises and no further address is looked up
LookupChain(owner, id, known) ==
  LET uri == CanonicalUri(owner, id)
      ok1 == uri \in known
  IN  << Lookup(uri, ok1) >>
      \o (IF ~ok1 /\ EndsWithQuote(uri)
            THEN << Lookup(RetryUri(uri), RetryUri(uri) \in known) >>
            ELSE << >>)
      \o (IF ~ok1
            THEN << Lookup(AltUri(owner, id), AltUri(owner, id) \in known) >>
            ELSE << >>)

\* a chain that prints the canonical address only
ListPrintsFirst(owner, id, known) == << CanonicalUri(owner, id) >>

\* the addresses the retry chain prints, in order: each address before it
\* is looked up, and the failed canonical one again
ListPrints(owner, id, known) ==
  LET uri == CanonicalUri(owner, id)
      ok1 == uri \in known
  IN  << uri >>
      \o (IF ~ok1 THEN << uri >> ELSE << >>)
      \o (IF ~ok1 /\ EndsWithQuote(uri) THEN << RetryUri(uri) >> ELSE << >>)
      \o (IF ~ok1 THEN << AltUri(owner, id) >> ELSE << >>)

\* entry of get_posts_from_bluesky_list up to the pagination loop
ListPostsEntry(owner, id, limit, prof_ok, known, bad) ==
  /\ pc = "idle"
  /\ op' = "get_posts_from_bluesky_list"
  /\ requested' = limit
  /\ original_limit' = limit
  /\ call_num' = 0
  /\ cursor' = NoCursor
  /\ posts_collected' = 0
  /\ posts' = << >>
  /\ list_handle' = owner
  /\ list_id' = id
  /\ accepted' = known
  /\ malformed' = bad
  /\ UNCHANGED << handle, profile_ok, from_user, pages, users >>
  /\ IF ~Resolved(owner, prof_ok)
       THEN \* get_profile raises: outer except
            /\ ReturnEmpty("error")
            /\ UNCHANGED << list_uri, lookups, printed, api_calls_needed,
                            api_call_limit >>
       ELSE
         /\ lookups' = LookupChain(owner, id, known)
         /\ printed' = ListPrints(owner, id, known)
         /\ list_uri' = IF CanonicalUri(owner, id) \in known
                          THEN CanonicalUri(owner, id)
                          ELSE RetryUri(CanonicalUri(owner, id))
         /\ IF CanonicalUri(owner, id) \notin known
               /\ AltUri(owner, id) \notin known
              THEN \* UnboundLocalError at line 149: outer except
                   /\ ReturnEmpty("error")
                   /\ UNCHANGED << api_calls_needed, api_call_limit >>
              ELSE IF Min(PageCap, limit) = 0
                THEN \* ZeroDivisionError: outer except
                     /\ ReturnEmpty("error")
                     /\ api_call_limit' = 0
                     /\ UNCHANGED api_calls_needed
                ELSE /\ api_call_limit' = Min(PageCap, limit)
                     /\ api_calls_needed' =
                          FloorDiv(limit + Min(PageCap, limit) - 1,
                                   Min(PageCap, limit))
                     /\ pc' = "list_loop"
                     /\ UNCHANGED out

\* get_posts_from_bluesky_list called by the user
CallListPosts(owner, id, limit, prof_ok, known, bad) ==
  /\ ListPostsEntry(owner, id, limit, prof_ok, known, bad)
  /\ UNCHANGED env

ListRemainingLimit == Min(api_call_limit, original_limit - posts_collected)

\* one iteration of the loop whose page call answers with n items
ListPage(n, has_cursor) ==
  /\ pc = "list_loop"
  /\ call_num < api_calls_needed
  /\ n \in PageSizes(ListRemainingLimit)
  /\ ~PageRaises(PageStart(cursor), n)
  /\ LET from  == PageStart(cursor)
         next  == IF has_cursor THEN from + n ELSE NoCursor
         items == PageItems(from, n)
         page_posts == [ j \in 1..n |-> NormalizeList(items[j]) ]
     IN  /\ pages' = Append(pages,
                        PageCall("get_list_feed", list_uri,
                                 ListRemainingLimit, cursor, n, next, FALSE,
                                 original_limit, posts_collected))
         /\ cursor' = next
         /\ call_num' = call_num + 1
         /\ posts' = posts \o page_posts
         /\ posts_collected' = posts_collected + Len(page_posts)
         /\ pc' = IF \/ next = NoCursor
                     \/ posts_collected + Len(page_posts) >= original_limit
                  THEN "list_exit" ELSE "list_loop"
  /\ UNCHANGED << env, args, api_calls_needed, api_call_limit, listv,
                  users, out >>

\* the page call answers with n items of which one has no text: no try
\* encloses the normalization but the outer one, whose except returns {}
ListPageRaises(n, has_cursor) ==
  /\ pc = "list_loop"
  /\ call_num < api_calls_needed
  /\ n \in PageSizes(ListRemainingLimit)
  /\ PageRaises(PageStart(cursor), n)
  /\ pages' = Append(pages,
                PageCall("get_list_feed", list_uri, ListRemainingLimit,
                         cursor, n,
                         IF has_cursor THEN PageStart(cursor) + n
                         ELSE NoCursor,
                         FALSE, original_limit, posts_collected))
  /\ cursor' = IF has_cursor THEN PageStart(cursor) + n ELSE NoCursor
  /\ call_num' = call_num + 1
  /\ ReturnEmpty("error")
  /\ UNCHANGED << env, args, api_calls_needed, api_call_limit,
                  posts_collected, posts, listv, users >>

\* the page call raises: only the outer except catches it, which returns {}
ListPageError ==
  /\ pc = "list_loop"
  /\ call_num < api_calls_needed
  /\ pages' = Append(pages,
                PageCall("get_list_feed", list_uri, ListRemainingLimit,
                         cursor, 0, NoCursor, TRUE, original_limit,
                         posts_collected))
  /\ call_num' = call_num + 1
  /\ ReturnEmpty("error")
  /\ UNCHANGED << env, args, api_calls_needed, api_call_limit, cursor,
                  posts_collected, posts, listv, users >>

\* after the loop: posts organized by author
ListReturn ==
  /\ \/ pc = "list_exit"
     \/ pc = "list_loop" /\ call_num >= api_calls_needed
  /\ pc' = "done"
  /\ results' = GroupByAuthor(posts)
  /\ outcome' = "ok"
  /\ UNCHANGED << env, args, loop, pages, listv, users, returned >>

(***************************************************************************)
(* get_list_feed                                                           *)
(***************************************************************************)
CallListFeed(owner, id, limit, prof_ok) ==
  /\ pc = "idle"
  /\ op' = "get_list_feed"
  /\ requested' = limit
  /\ original_limit' = limit
  /\ call_num' = 0
  /\ cursor' = NoCursor
  /\ posts_collected' = 0
  /\ posts' = << >>
  /\ list_handle' = owner
  /\ list_id' = id
  \* a record without text does not make get_list_feed raise, and the
  \* member timelines of the fallback are fetched over well-formed feeds
  /\ malformed' = {}
  /\ UNCHANGED << env, handle, profile_ok, from_user, pages, lookups,
                  printed, accepted, users, api_calls_needed >>
  /\ IF ~Resolved(owner, prof_ok)
       THEN /\ ReturnEmpty("error")
            /\ UNCHANGED << list_uri, api_call_limit >>
       ELSE /\ list_uri' =
                 ListUri(AtScheme, sanitize_uri_component(ProfileDid(owner)),
                         sanitize_uri_component(id))
            \* params["limit"], set once
            /\ api_call_limit' = Min(PageCap, limit)
            /\ pc' = "listfeed_loop"
            /\ UNCHANGED out

\* one iteration of the while loop whose page call answers with n items
ListFeedPage(n, has_cursor) ==
  /\ pc = "listfeed_loop"
  /\ Len(posts) < original_limit
  /\ call_num < MaxFeedCalls
  /\ n \in PageSizes(api_call_limit)
  /\ LET from  == PageStart(cursor)
         next  == IF has_cursor THEN from + n ELSE NoCursor
         items == PageItems(from, n)
         page  == [ j \in 1..n |-> NormalizeListFeed(items[j]) ]
     IN  /\ pages' = Append(pages,
                        PageCall("get_list_feed", list_uri, api_call_limit,
                                 cursor, n, next, FALSE, original_limit,
                                 Len(posts)))
         /\ call_num' = call_num + 1
         /\ posts' = posts \o page
         /\ posts_collected' = Len(posts) + n
         /\ IF n = 0 \/ Len(posts) + n >= original_limit
              THEN /\ pc' = "listfeed_exit"
                   /\ UNCHANGED cursor
              ELSE /\ cursor' = next
                   /\ pc' = IF next = NoCursor THEN "listfeed_exit"
                            ELSE "listfeed_loop"
  /\ UNCHANGED << env, args, api_calls_needed, api_call_limit, listv,
                  users, out >>

\* the page call raises: the inner except prints and breaks
ListFeedPageError ==
  /\ pc = "listfeed_loop"
  /\ Len(posts) < original_limit
  /\ call_num < MaxFeedCalls
  /\ pages' = Append(pages,
                PageCall("get_list_feed", list_uri, api_call_limit, cursor,
                         0, NoCursor, TRUE, original_limit, Len(posts)))
  /\ call_num' = call_num + 1
  /\ pc' = "listfeed_exit"
  /\ UNCHANGED << env, args, api_calls_needed, api_call_limit, cursor,
                  posts_collected, posts, listv, users, out >>

ListFeedLoopOver ==
  \/ pc = "listfeed_exit"
  \/ pc = "listfeed_loop" /\ Len(posts) >= original_limit

\* a direct feed that is taken to have failed whenever it produced fewer
\* posts than requested
FewerThanRequested == Len(posts) < original_limit

\* "if results:" is false: the direct feed produced no post
NoDirectResults == posts = << >>

\* the direct feed produced posts: they are returned organized by author
ListFeedReturn ==
  /\ ListFeedLoopOver
  /\ ~NoDirectResults
  /\ pc' = "done"
  /\ results' = GroupByAuthor(posts)
  /\ outcome' = "ok"
  /\ UNCHANGED << env, args, loop, pages, listv, users, returned >>

\* every member is given the whole limit
WholeLimit(limit, m) == Max(1, limit)

\* posts_per_user = max(1, limit // len(handles))
PostsPerUser(limit, m) == Max(1, FloorDiv(limit, m))

\* the direct feed produced nothing: list members, then their timelines
ListFeedFallback(list_ok, handles, ok) ==
  /\ ListFeedLoopOver
  /\ NoDirectResults
  /\ lookups' = Append(lookups, Lookup(list_uri, list_ok))
  /\ UNCHANGED << env, op, requested, from_user, malformed, pages, list_uri,
                  printed, list_handle, list_id, accepted >>
  /\ IF ~list_ok
       THEN \* get_list raises: outer except
            /\ ReturnEmpty("error")
            /\ UNCHANGED << handle, profile_ok, original_limit, loop,
                            users >>
       ELSE IF handles = << >>
         THEN \* "No members found in list"
              /\ ReturnEmpty("ok")
              /\ UNCHANGED << handle, profile_ok, original_limit, loop,
                              users >>
         ELSE /\ members' = handles
              /\ targets' = Tail(handles)
              /\ StartUserPosts(Head(handles),
                                PostsPerUser(original_limit, Len(handles)),
                                ok)
              /\ UNCHANGED out

(***************************************************************************)
(* Specification.                                                          *)
(***************************************************************************)
Next ==
  \/ \E h \in Handles, limit \in Limits, ok \in BOOLEAN,
        bad \in MalformedSets :
       CallUserPosts(h, limit, ok, bad)
  \/ \E n \in 0..PageCap, has_cursor \in BOOLEAN : UserPage(n, has_cursor)
  \/ UserPageError
  \/ UserReturn
  \/ UsersNext
  \/ UsersReturn
  \/ \E limit \in Limits, fu \in FromUsers, bad \in MalformedSets :
       CallSearchPosts(limit, fu, bad, NoKwargs)
  \/ \E n \in 0..PageCap, has_cursor \in BOOLEAN : SearchPage(n, has_cursor)
  \/ \E n \in 0..PageCap, has_cursor \in BOOLEAN :
       SearchPageRaises(n, has_cursor)
  \/ SearchPageError
  \/ SearchReturn
  \/ \E t \in ListTargets, limit \in Limits, prof_ok \in BOOLEAN :
       \E known \in SUBSET ListAddresses(t[1], t[2]), bad \in MalformedSets :
         CallListPosts(t[1], t[2], limit, prof_ok, known, bad)
  \/ \E n \in 0..PageCap, has_cursor \in BOOLEAN : ListPage(n, has_cursor)
  \/ \E n \in 0..PageCap, has_cursor \in BOOLEAN :
       ListPageRaises(n, has_cursor)
  \/ ListPageError
  \/ ListReturn
  \/ \E t \in ListTargets, limit \in Limits, prof_ok \in BOOLEAN :
       CallListFeed(t[1], t[2], limit, prof_ok)
  \/ \E n \in 0..PageCap, has_cursor \in BOOLEAN : ListFeedPage(n, has_cursor)
  \/ ListFeedPageError
  \/ ListFeedReturn
  \/ \E list_ok, ok \in BOOLEAN, handles \in MemberLists :
       ListFeedFallback(list_ok, handles, ok)

Spec == Init /\ [][Next]_vars

(***************************************************************************)
(* sanitize_uri_component on its own: every string of at most MaxLen       *)
(* characters is sanitized, and the result sanitized again.                *)
(***************************************************************************)
MaxLen == 3

TextChars == { "\"", "'", " ", "\t", "\\x01", "\\x80", "a" }

TextInputs == UNION { [ 1..k -> TextChars ] : k \in 0..MaxLen }

TextInit ==
  /\ me = NoOne
  /\ NoCommand
  /\ input_str \in TextInputs
  /\ outputs = << >>
  /\ NoRecord
  /\ NoLocator
  /\ Fresh

Sanitize ==
  /\ Len(outputs) < 2
  /\ outputs' = Append(outputs,
                   sanitize_uri_component(IF outputs = << >> THEN input_str
                                          ELSE outputs[Len(outputs)]))
  /\ UNCHANGED << me, input_str, normv, locator, searchv, cliv, pc, args,
                  loop, pages, listv, users, out >>

TextNext == Sanitize

TextSpec == TextInit /\ [][TextNext]_vars

(***************************************************************************)
(* The normalization of a page that one record heads, by each fetch, and   *)
(* the export of the post made of that record.                             *)
(***************************************************************************)
PostInit ==
  /\ me = NoOne
  /\ NoCommand
  /\ input_str = << >>
  /\ outputs = << >>
  /\ record \in Records
  /\ path = "none"
  /\ post_list = << >>
  /\ aux_calls = << >>
  /\ exporter = "none"
  /\ exported = << >>
  /\ NoLocator
  /\ Fresh

\* the page served: the record, then a plain post
Feed == << record, PlainRecord >>

Normalized(by, ps, calls) ==
  /\ path = "none"
  /\ path' = by
  /\ kwargs' = kwargs
  /\ post_list' = ps
  /\ aux_calls' = calls
  /\ UNCHANGED << me, input_str, outputs, record, exporter, exported,
                  locator, cliv, search_params, pc, args, loop, pages, listv,
                  users, out >>

\* get_user_posts: the loop over author_feed.feed
NormalizeUserPage ==
  Normalized("get_user_posts",
             [ i \in 1..Len(Feed) |-> NormalizeUserRecord(Feed[i], me) ],
             << >>)

\* search_posts: the loop over search_response.posts; an exception that
\* left the normalization of a post would end the search with no post
NormalizeSearchPage ==
  LET done == [ i \in 1..Len(Feed) |-> NormalizeSearchRecord(Feed[i], from_user) ]
      calls == done[1].calls \o done[2].calls
  IN  IF \E i \in 1..Len(Feed) : done[i].raised
        THEN Normalized("raised", << >>, calls)
        ELSE Normalized("search_posts",
                        [ i \in 1..Len(Feed) |-> done[i].post ], calls)

\* the characters of the urls, as far as a domain is looked for in them
UrlText(url) ==
  CASE url = UrlA -> << "https://", "a", ".", "example", "/", "x" >>
    [] url = UrlB -> << "https://", "b", ".", "example", "/", "y" >>

\* kwargs['domain'] of a search
Domains == { << "a", ".", "example" >>, << "B", ".", "example" >> }

\* any(domain in url.lower() for url in urls), domain being
\* kwargs['domain'].lower()
DomainInUrls(domain, urls) ==
  \E i \in 1..Len(urls) : IsSubstring(Lower(domain), Lower(UrlText(urls[i])))

\* the post is skipped: a domain is given, the post has urls, and the
\* domain is in none of them
SkippedForDomain(post, kw) ==
  /\ "domain" \in DOMAIN kw
  /\ kw["domain"] # << >>
  /\ post.urls # << >>
  /\ ~DomainInUrls(kw["domain"], post.urls)

\* search_posts called with a domain filter: the loop over
\* search_response.posts
NormalizeSearchDomain(domain) ==
  LET kw   == "domain" :> domain
      done == [ i \in 1..Len(Feed) |-> NormalizeSearchRecord(Feed[i], from_user) ]
      kept == SelectSeq(done, LAMBDA d : ~SkippedForDomain(d.post, kw))
  IN  /\ path = "none"
      /\ kwargs' = kw
      /\ aux_calls' = done[1].calls \o done[2].calls
      /\ IF \E i \in 1..Len(Feed) : done[i].raised
           THEN path' = "raised" /\ post_list' = << >>
           ELSE /\ path' = "search_posts with domain"
                /\ post_list' = [ i \in 1..Len(kept) |-> kept[i].post ]
      /\ UNCHANGED << me, input_str, outputs, record, exporter, exported,
                      locator, cliv, search_params, pc, args, loop, pages,
                      listv, users, out >>

\* get_posts_from_bluesky_list: the loop over list_feed.feed
NormalizeListPage ==
  Normalized("get_posts_from_bluesky_list",
             [ i \in 1..Len(Feed) |-> NormalizeListRecord(Feed[i]) ], << >>)

\* get_list_feed: the loop over feed_items
NormalizeListFeedPage ==
  Normalized("get_list_feed",
             [ i \in 1..Len(Feed) |-> NormalizeListFeedRecord(Feed[i]) ],
             << >>)

Exported(by, e) ==
  /\ path \notin { "none", "raised" }
  /\ exporter = "none"
  /\ exporter' = by
  /\ exported' = e
  /\ UNCHANGED << me, input_str, outputs, record, path, post_list,
                  aux_calls, locator, searchv, cliv, pc, args, loop, pages,
                  listv, users, out >>

\* save_results_to_json of the package
ExportJson == Exported("save_results_to_json", ExportedPost(post_list[1]))

ExportCsv == Exported("save_results_to_csv", CsvRow(post_list[1]))

ExportParquet == Exported("save_results_to_parquet", ParquetRow(post_list[1]))

\* _flatten_results of bluesky_posts.py, for its CSV and Parquet files
FlattenResults == Exported("_flatten_results", FlattenedPost(post_list[1]))

PostNext ==
  \/ NormalizeUserPage
  \/ NormalizeSearchPage
  \/ \E domain \in Domains : NormalizeSearchDomain(domain)
  \/ NormalizeListPage
  \/ NormalizeListFeedPage
  \/ ExportJson
  \/ ExportCsv
  \/ ExportParquet
  \/ FlattenResults

PostSpec == PostInit /\ [][PostNext]_vars

(***************************************************************************)
(* parse_bluesky_list_url on its own, and get_posts_from_bluesky_list_url  *)
(* with the list fetch it starts.                                          *)
(***************************************************************************)
UrlInit ==
  /\ me = NoOne
  /\ NoCommand
  /\ input_str = << >>
  /\ outputs = << >>
  /\ NoRecord
  /\ list_url \in Locators
  /\ list_info = Unparsed
  /\ reports = << >>
  /\ Fresh

\* parse_bluesky_list_url(list_url)
ParseListUrl ==
  /\ pc = "idle"
  /\ list_info = Unparsed
  /\ list_info' = parse_bluesky_list_url(list_url)
  /\ reports' = ParsePrints(parse_bluesky_list_url(list_url))
  /\ UNCHANGED << me, input_str, outputs, normv, list_url, searchv, cliv,
                  pc, args, loop, pages, listv, users, out >>

\* list_info, handle and list_id as get_posts_from_bluesky_list_url
\* computes them
UrlTarget ==
  LET info == parse_bluesky_list_url(sanitize_uri_component(list_url))
  IN  [ info    |-> info,
        handle  |-> sanitize_uri_component(info.handle),
        list_id |-> sanitize_uri_component(info.list_id) ]

\* the addresses under which the API may know the list of the locator
UrlAddresses ==
  IF Resolved(UrlTarget.handle, TRUE)
    THEN ListAddresses(UrlTarget.handle, UrlTarget.list_id)
    ELSE {}

\* get_posts_from_bluesky_list_url(list_url, limit)
CallListUrl(limit, prof_ok, known, bad) ==
  LET clean == sanitize_uri_component(list_url)
      info  == UrlTarget.info
      h     == UrlTarget.handle
      id    == UrlTarget.list_id
  IN  /\ pc = "idle"
      /\ list_info = Unparsed
      /\ list_info' = info
      /\ UNCHANGED << me, input_str, outputs, normv, list_url, searchv,
                      cliv >>
      /\ IF info.shape = "none"
           THEN /\ reports' =
                     << Line("Processed list URL:", clean) >>
                       \o ParsePrints(info)
                       \o << Line("Invalid list URL:", clean),
                             Line("Expected format:",
                                  << SupportedFormats[1] >>) >>
                /\ op' = "get_posts_from_bluesky_list_url"
                /\ requested' = limit
                /\ ReturnEmpty("ok")
                /\ UNCHANGED << handle, profile_ok, from_user,
                                original_limit, malformed, loop, pages,
                                listv, users >>
           ELSE /\ reports' =
                     << Line("Processed list URL:", clean),
                        Line("Clean handle:", h),
                        Line("Clean list ID:", id) >>
                /\ ListPostsEntry(h, id, limit, prof_ok, known, bad)

UrlNext ==
  \/ ParseListUrl
  \/ /\ pc = "idle"
     /\ \E prof_ok \in BOOLEAN, bad \in MalformedSets :
          \E known \in SUBSET UrlAddresses :
            CallListUrl(MaxSmall, prof_ok, known, bad)
  \/ \E n \in 0..PageCap, has_cursor \in BOOLEAN : ListPage(n, has_cursor)
  \/ \E n \in 0..PageCap, has_cursor \in BOOLEAN :
       ListPageRaises(n, has_cursor)
  \/ ListPageError
  \/ ListReturn

UrlSpec == UrlInit /\ [][UrlNext]_vars

PcValues ==
  { "idle", "user_loop", "user_exit", "search_loop", "search_exit",
    "list_loop", "list_exit", "listfeed_loop", "listfeed_exit", "done" }

TypeOK ==
  /\ pc \in PcValues
  /\ posts_collected >= 0

(***************************************************************************)
(* Properties.                                                             *)
(***************************************************************************)
FetchOps == { "get_user_posts", "search_posts", "get_posts_from_bluesky_list" }

\* two page calls of the same paginated fetch
SameFetch(a, b) == a.api = b.api /\ a.target = b.target

\* the posts of a ResultSet, key by key
AllPosts(rs) ==
  UNION { { rs[h][i] : i \in 1..Len(rs[h]) } : h \in DOMAIN rs }

NoDupUris(ps) ==
  \A i, j \in 1..Len(ps) : i # j => ps[i].uri # ps[j].uri

\* what the finished operation handed back equals the accumulated posts
ReturnsAccumulated ==
  IF op = "get_posts_from_bluesky_list"
    THEN results = GroupByAuthor(posts)
    ELSE returned = posts

\* C1: a fetch called with limit <= 0 issues no page call and returns an
\* empty result (get_user_posts, search_posts, get_posts_from_bluesky_list)
C1_NonPositiveLimitIssuesNoCall ==
  (op \in FetchOps /\ requested <= 0) =>
    /\ pages = << >>
    /\ pc = "done" => (returned = << >> /\ DOMAIN results = {})

\* C2: every page call of a fetch of requested_total > 0 asks for
\* min(100, requested_total - collected so far) items, which is at least 1
\* and at most 100 (page calls of a fetch of requested_total <= 0 are C1's)
C2_PageLimitIsRemainingCapped ==
  \A i \in 1..Len(pages) :
    pages[i].total > 0 =>
      /\ pages[i].limit = Min(PageCap, pages[i].total - pages[i].before)
      /\ pages[i].limit >= 1
      /\ pages[i].limit <= PageCap

\* C3: a fetch of requested_total > 0 issues at most ceil(requested_total /
\* 100) page calls, and exactly that many unless a page came back empty,
\* without a cursor or with an error (a fetch that a malformed record ended
\* is counted as ended by an error; it is the subject of C17)
C3_CallCountIsCeiling ==
  \A i \in 1..Len(pages) :
    pages[i].total > 0 =>
      LET mine == { j \in 1..Len(pages) : SameFetch(pages[j], pages[i]) }
      IN  /\ Cardinality(mine) <= CeilCalls(pages[i].total)
          /\ (pc = "done" /\ Cardinality(mine) < CeilCalls(pages[i].total)) =>
               \/ outcome = "error"
               \/ \E j \in mine :
                    pages[j].n = 0 \/ pages[j].next = NoCursor \/ pages[j].err

\* C4: the posts of one paginated fetch never contain the same uri twice
C4_NoDuplicateUris ==
  /\ NoDupUris(posts)
  /\ NoDupUris(returned)
  /\ \A h \in DOMAIN results : NoDupUris(results[h])

\* C5: when a page call after the first raises, the fetch makes no further
\* page call and returns the posts of the earlier pages (get_user_posts,
\* search_posts, get_posts_from_bluesky_list)
C5_ErrorKeepsAccumulatedPosts ==
  op \in FetchOps =>
    /\ \A i \in 1..(Len(pages) - 1) : ~pages[i].err
    /\ (pc = "done" /\ Len(pages) > 1 /\ pages[Len(pages)].err) =>
         (ReturnsAccumulated /\ outcome = "ok")

\* C6: no page call of a fetch follows a response of that fetch that
\* carried no cursor
C6_NoCallAfterMissingCursor ==
  \A i, j \in 1..Len(pages) :
    (i < j /\ SameFetch(pages[i], pages[j]) /\ ~pages[i].err) =>
      pages[i].next # NoCursor

\* C7: no page call of a fetch follows an empty page of that fetch, with or
\* without a cursor, and the fetch then returns the collected posts as a
\* normal result
C7_EmptyPageEndsFetch ==
  /\ \A i, j \in 1..Len(pages) :
       (i < j /\ SameFetch(pages[i], pages[j]) /\ ~pages[i].err) =>
         pages[i].n # 0
  /\ ( /\ op \in FetchOps
       /\ pc = "done"
       /\ pages # << >>
       /\ ~pages[Len(pages)].err
       /\ pages[Len(pages)].n = 0 ) =>
       (ReturnsAccumulated /\ outcome = "ok")

\* the posts the running operation has produced
Produced ==
  { posts[i] : i \in 1..Len(posts) } \cup { returned[i] : i \in 1..Len(returned) }
    \cup AllPosts(results)

\* C8: a record is normalized to post_type 'reply' exactly when its reply
\* structure is non-null, in every fetch path
C8_ReplyIffReplyStructure ==
  \A p \in Produced :
    (p.post_type = "reply") <=> (RawPost(p.uri).reply = "present")

\* C9: get_user_posts(handle) classifies a post without reply structure as
\* 'repost' when its author DID differs from the DID of the account named
\* by handle, and as 'original' otherwise, whoever is logged in (stated for
\* fetches whose profile lookups succeed, so that the owner's DID is known)
C9_RepostIffAuthorIsNotOwner ==
  (op = "get_user_posts" /\ profile_ok) =>
    \A p \in Produced :
      RawPost(p.uri).reply # "present" =>
        p.post_type = (IF p.author.did # DidOf(handle)
                         THEN "repost" ELSE "original")

\* C10: post_type of every produced post is 'original', 'reply' or 'repost'
C10_PostTypeInEnum ==
  \A p \in Produced : p.post_type \in { "original", "reply", "repost" }

ListOp == op = "get_posts_from_bluesky_list"

AllLookupsFailed ==
  lookups # << >> /\ \A i \in 1..Len(lookups) : ~lookups[i].ok

\* C11: when every list lookup of get_posts_from_bluesky_list failed, the
\* operation has returned an empty ResultSet, has issued no page call, and
\* has printed every address it looked up
C11_AllLookupsFailedReturnsEmpty ==
  (ListOp /\ AllLookupsFailed) =>
    /\ pc = "done"
    /\ DOMAIN results = {}
    /\ pages = << >>
    /\ \A i \in 1..Len(lookups) :
         \E j \in 1..Len(printed) : printed[j] = lookups[i].addr

\* the canonical address and the one without at:// were looked up and
\* both failed
C11_Witness ==
  /\ ListOp
  /\ AllLookupsFailed
  /\ Len(lookups) = 2
  /\ lookups[2].addr = AltUri(list_handle, list_id)

\* C12: the retry chain of get_posts_from_bluesky_list goes on to the
\* address with the alphanumeric-only list id: when the lookups of the
\* earlier variants have all failed and that address differs from them, it
\* is looked up before the operation ends
C12_ChainReachesAlphanumericVariant ==
  ( /\ ListOp
    /\ pc = "done"
    /\ AllLookupsFailed
    /\ FinalUri(list_handle, list_id) # AltUri(list_handle, list_id) ) =>
    \E i \in 1..Len(lookups) :
      lookups[i].addr = FinalUri(list_handle, list_id)

\* C13: when the API knows the list under some address variant of the
\* chain, the last one included, get_posts_from_bluesky_list goes on to
\* the list's posts: once the chain has run, it does not end without a page
\* call
C13_AnyAcceptedVariantFetches ==
  ( /\ ListOp
    /\ pc = "done"
    /\ requested > 0
    /\ lookups # << >>
    /\ accepted # {} ) =>
    pages # << >>

\* C14: sanitizing the output of sanitize_uri_component again changes
\* nothing
C14_SanitizeIdempotent ==
  Len(outputs) = 2 => outputs[2] = outputs[1]

\* the characters the output must not contain
Unwanted == QuoteChars \cup WhiteSpace \cup ControlChars \cup C1Chars

\* C15: the output of sanitize_uri_component is its input without the
\* quotes, whitespace and control characters, wherever they stand
C15_SanitizeRemovesExactly ==
  outputs # << >> => outputs[1] = RemoveAll(input_str, Unwanted)

\* C16: every post of a ResultSet stands under the handle of its author
C16_KeyIsAuthorHandle ==
  \A h \in DOMAIN results :
    \A i \in 1..Len(results[h]) : results[h][i].author.handle = h

\* the uris the finished operation handed back
HandedBack ==
  { returned[i].uri : i \in 1..Len(returned) }
    \cup { p.uri : p \in AllPosts(results) }

\* the feed positions page call c was answered with
Served(c) == (PageStart(c.cursor) + 1)..(PageStart(c.cursor) + c.n)

\* C17: when no page call failed, every record served to a fetch is handed
\* back but the malformed ones: a record whose normalization raises is
\* dropped alone (get_user_posts, search_posts, get_posts_from_bluesky_list)
C17_OnlyMalformedRecordDropped ==
  ( /\ op \in FetchOps
    /\ pc = "done"
    /\ \A i \in 1..Len(pages) : ~pages[i].err ) =>
    \A i \in 1..Len(pages) :
      \A k \in Served(pages[i]) : k \notin malformed => k \in HandedBack

FeedOp == op = "get_list_feed"

\* a page call of the direct list feed brought posts
DirectProduced ==
  \E i \in 1..Len(pages) :
    pages[i].api = "get_list_feed" /\ ~pages[i].err /\ pages[i].n > 0

\* the membership lookup or a member's timeline fetch has been made
FallbackStarted ==
  \/ lookups # << >>
  \/ fetches # << >>
  \/ \E i \in 1..Len(pages) : pages[i].api = "get_author_feed"

\* C18: get_list_feed looks the list members up and fetches their timelines
\* only when the direct list feed brought no post; when it brought posts,
\* the result is made of those posts and nothing else is called
C18_FallbackOnlyWithoutDirectPosts ==
  FeedOp =>
    /\ FallbackStarted => ~DirectProduced
    /\ (pc = "done" /\ DirectProduced) =>
         /\ results = GroupByAuthor(posts)
         /\ { p.uri : p \in AllPosts(results) } =
              UNION { Served(pages[i]) : i \in 1..Len(pages) }

\* the direct call failed and a member's timeline has been fetched
C18_Witness ==
  /\ FeedOp
  /\ pages # << >>
  /\ pages[1].err
  /\ fetches # << >>
  /\ pc = "done"
  /\ DOMAIN results # {}

\* the uris the page calls for h were answered with, in the order of the calls
RECURSIVE ServedTo(_, _)
ServedTo(h, k) ==
  IF k = 0 THEN << >>
  ELSE ServedTo(h, k - 1)
         \o (IF pages[k].api = "get_author_feed" /\ pages[k].target = h
                 /\ ~pages[k].err
               THEN [ j \in 1..pages[k].n |-> PageStart(pages[k].cursor) + j ]
               ELSE << >>)

\* the place of h in the membership order
MemberIndex(h) == CHOOSE j \in 1..Len(members) : members[j] = h

\* C19: in the fallback with m >= 1 members, the timelines are fetched one
\* member after another in membership order, each once and with limit
\* max(1, requested_total // m), and the ResultSet holds for each member
\* the posts its fetch retrieved
C19_MembersFetchedOnceInOrder ==
  (FeedOp /\ members # << >>) =>
    /\ Len(fetches) <= Len(members)
    /\ \A j \in 1..Len(fetches) :
         /\ fetches[j].handle = members[j]
         /\ fetches[j].limit = Max(1, requested \div Len(members))
    /\ \A i \in 1..Len(pages) :
         pages[i].api = "get_author_feed" =>
           /\ \E j \in 1..Len(fetches) :
                /\ pages[i].target = fetches[j].handle
                /\ pages[i].total = fetches[j].limit
           /\ \A k \in 1..(i - 1) :
                pages[k].api = "get_author_feed" =>
                  MemberIndex(pages[k].target) <= MemberIndex(pages[i].target)
    /\ pc = "done" =>
         /\ Len(fetches) = Len(members)
         /\ \A j \in 1..Len(members) :
              LET h == members[j]
                  got == ServedTo(h, Len(pages))
              IN  IF got = << >> THEN h \notin DOMAIN results
                  ELSE /\ h \in DOMAIN results
                       /\ [ i \in 1..Len(results[h]) |-> results[h][i].uri ] = got
         /\ \A h \in DOMAIN results : \E j \in 1..Len(members) : members[j] = h

\* two members were fetched and both brought posts
C19_Witness ==
  /\ FeedOp
  /\ pc = "done"
  /\ Len(members) = 2
  /\ Len(fetches) = 2
  /\ Cardinality(DOMAIN results) = 2

\* the fetch of the j-th target is over
Finished(j) == j < Len(fetches) \/ pc = "done"

\* a page call for the timeline of h failed
FeedCallFailed(h) ==
  \E i \in 1..Len(pages) :
    pages[i].api = "get_author_feed" /\ pages[i].target = h /\ pages[i].err

FilterInHandle(fu, h) ==
  /\ fu # << >>
  /\ \E k \in 0..(Len(Chars(h)) - Len(fu)) :
       \A j \in 1..Len(fu) : LowerChar(fu[j]) = LowerChar(Chars(h)[k + j])

\* C24: a search result without a reply structure is 'original' when its
\* author's handle contains the from_user filter, letter case set aside;
\* otherwise it is 'repost' exactly when its reason tag is a repost marker
\* and 'original' in every other case, also when no filter is given
C24_SearchClassification ==
  op = "search_posts" =>
    \A i \in 1..Len(posts) :
      LET raw == RawPost(posts[i].uri)
      IN  raw.reply # "present" =>
            posts[i].post_type =
              IF FilterInHandle(from_user, raw.author) THEN "original"
              ELSE IF raw.reason = "repost" THEN "repost"
              ELSE "original"

\* a result of bob's that carries a repost reason was found with the filter
\* BOB and classified original
C24_Witness ==
  /\ op = "search_posts"
  /\ from_user = << "B", "O", "B" >>
  /\ \E i \in 1..Len(posts) :
       /\ RawPost(posts[i].uri).author = "bob"
       /\ RawPost(posts[i].uri).reply = "absent"
       /\ RawPost(posts[i].uri).reason = "repost"
       /\ posts[i].post_type = "original"

(***************************************************************************)
(* Links and mentions of a normalized post.                                *)
(***************************************************************************)
NoRepeat(seq) == \A i, j \in 1..Len(seq) : seq[i] = seq[j] => i = j

\* C21: the urls of every normalized post hold no URL twice, whether the
\* repetition is in the text, in the link annotations, or in both.
C21_UrlsHaveNoRepeat ==
  \A i \in 1..Len(post_list) : NoRepeat(Field(post_list[i], "urls"))

\* the link annotations of a record, and its mention annotations
LinkAnnotations(rec) == SelectSeq(rec.facets, LAMBDA a : a.kind = "link")
MentionAnnotations(rec) == SelectSeq(rec.facets, LAMBDA a : a.kind = "mention")

\* where u first occurs in seq
FirstAt(seq, u) == CHOOSE i \in 1..Len(seq) :
                     seq[i] = u /\ \A j \in 1..(i - 1) : seq[j] # u

\* urls is the link URIs in annotation order, then the scanned URLs that no
\* annotation carries, each once, in the order of their first occurrence
UrlsAsSpecified(rec, urls) ==
  LET links   == LinkAnnotations(rec)
      scanned == SelectSeq(rec.text, IsUrl)
      k       == Len(links)
  IN  /\ Len(urls) >= k
      /\ \A i \in 1..k : urls[i] = links[i].ref
      /\ LET rest == SubSeq(urls, k + 1, Len(urls))
         IN  /\ NoRepeat(rest)
             /\ Range(rest) = Range(scanned) \ { links[i].ref : i \in 1..k }
             /\ \A p, q \in 1..Len(rest) :
                  p < q => FirstAt(scanned, rest[p]) < FirstAt(scanned, rest[q])

\* mentions has one entry per mention annotation: its handle, else its DID
MentionsAsSpecified(rec, mentions) ==
  LET ms == MentionAnnotations(rec)
  IN  /\ Len(mentions) = Len(ms)
      /\ \A i \in 1..Len(ms) :
           mentions[i] = IF ms[i].handle # NoHandle THEN ms[i].handle
                         ELSE ms[i].ref

\* C22: for every normalized post, urls is the URIs of the link annotations
\* in annotation order followed by the URLs of the text scan not yet in the
\* collection, in order of first occurrence, and mentions has one entry per
\* mention annotation in order, its handle when it has one, else its DID.
C22_UrlsAndMentionsFromAnnotations ==
  \A i \in 1..Len(post_list) :
    /\ UrlsAsSpecified(Feed[i], Field(post_list[i], "urls"))
    /\ MentionsAsSpecified(Feed[i], Field(post_list[i], "mentions"))

\* the same, for the fetches that read the type tag where the record has it
C22_Agreeing ==
  (\/ path \in { "get_user_posts", "search_posts",
                 "get_posts_from_bluesky_list" } /\ record.tag = "py_type"
   \/ path = "get_list_feed" /\ record.tag = "$type")
    => C22_UrlsAndMentionsFromAnnotations

(***************************************************************************)
(* The exported post.                                                      *)
(***************************************************************************)
\* C23: the exported representation of every post carries urls, mentions
\* and images as collections, empty when nothing was extracted, never null
\* and never missing.
C23_ExportedCollectionsNeverNull ==
  exporter # "none" =>
    \A k \in { "urls", "mentions", "images" } :
      k \in DOMAIN exported /\ ~exported[k].null

\* the same, of the exporter of the package alone
C23_PackageExport ==
  exporter = "save_results_to_json" => C23_ExportedCollectionsNeverNull

(***************************************************************************)
(* Whom a reply answers.                                                   *)
(***************************************************************************)
\* a search normalized the page, and its first record is a reply
SearchedReply == path = "search_posts" /\ HasReply(record)

\* C25: the replied-to handle of a reply is the leading @handle of the text
\* if there is one, else the first mention entry of the post; the lookups by
\* the parent DID are made only when both gave nothing.
C25_HandleFromTextThenMentionThenLookup ==
  SearchedReply =>
    LET post     == post_list[1]
        leading  == LeadingHandleOf(record.text)
    IN  /\ leading # "" => post.replied_to_handle = leading
        /\ leading = "" /\ post.mentions # << >> =>
             post.replied_to_handle = post.mentions[1]
        /\ aux_calls # << >> => leading = "" /\ post.mentions = << >>

\* what the code does: the leading @handle, else the lookups
C25_HandleFromTextThenLookup ==
  SearchedReply =>
    LET post     == post_list[1]
        leading  == LeadingHandleOf(record.text)
    IN  /\ leading # "" => post.replied_to_handle = leading /\ aux_calls = << >>
        /\ leading = "" /\ record.parent # NoParent =>
             /\ aux_calls # << >>
             /\ post.replied_to_handle =
                  IF record.resolver = 0 THEN "" ELSE ParentHandle
        /\ leading = "" /\ record.parent = NoParent =>
             post.replied_to_handle = "" /\ aux_calls = << >>

\* every way to find the handle fails: no leading @handle, no mention, and
\* each lookup raises
NothingResolves(rec) ==
  /\ HasReply(rec)
  /\ LeadingHandleOf(rec.text) = ""
  /\ MentionAnnotations(rec) = << >>
  /\ rec.resolver = 0

\* C26: when every attempt to resolve the replied-to handle of a reply fails,
\* the reply is still emitted with post_type 'reply' and an empty
\* replied_to_handle, and the other posts of the page are still processed.
C26_UnresolvedReplyStillEmitted ==
  path \in { "search_posts", "raised" } /\ NothingResolves(record) =>
    /\ path = "search_posts"
    /\ Len(post_list) = Len(Feed)
    /\ post_list[1].post_type = "reply"
    /\ post_list[1].replied_to_handle = ""
    /\ post_list[2].uri = Feed[2].uri

\* a reply to a known parent, with all three lookups made and raising
C26_Witness ==
  /\ path = "search_posts"
  /\ NothingResolves(record)
  /\ record.parent = ParentUri
  /\ aux_calls = AuxMethods
  /\ Len(post_list) = 2
  /\ post_list[1].replied_to_handle = ""

\* the fetches that set replied_to_id
SetsRepliedToId ==
  { "search_posts", "get_posts_from_bluesky_list", "get_list_feed" }

\* C27: for a reply whose parent reference is at://<D>/<collection>/<rkey>,
\* replied_to_id is the owning DID <D> in every fetch that sets the field.
C27_RepliedToIdIsOwningDid ==
  path \in SetsRepliedToId /\ record.parent = ParentUri =>
    post_list[1].replied_to_id = << ParentUri[2] >>

\* the same, of the search alone
C27_SearchRepliedToId ==
  path = "search_posts" => C27_RepliedToIdIsOwningDid

(***************************************************************************)
(* List locators.                                                          *)
(***************************************************************************)
\* the shapes in the order they are tried
Shapes == << "browser", "at_uri", "did_uri" >>

ShapeHead(shape) ==
  CASE shape = "browser" -> WebHost
    [] shape = "at_uri"  -> AtScheme[1]
    [] shape = "did_uri" -> DidPrefix[1]

ShapeSeparator(shape) ==
  IF shape = "browser" THEN ListsPart ELSE ListCollection[1]

\* url holds the shape from i: its head at i, an owner without / up to e,
\* the separator, and a list id without / up to f, where the id ends
Fit(url, shape, i, e, f) ==
  /\ url[i] = ShapeHead(shape)
  /\ url[e + 1] = ShapeSeparator(shape)
  /\ \A k \in (i + 1)..e : url[k] \notin SlashSymbols
  /\ \A k \in (e + 2)..f : url[k] \notin SlashSymbols
  /\ f = Len(url) \/ url[f + 1] \in SlashSymbols

\* where an owner that begins after i may end, and a list id after that
OwnerEnds(url, i) == (i + 1)..(Len(url) - 2)
IdEnds(url, e) == (e + 2)..Len(url)

FitsAt(url, shape, i) ==
  /\ url[i] = ShapeHead(shape)
  /\ \E e \in OwnerEnds(url, i) :
       /\ url[e + 1] = ShapeSeparator(shape)
       /\ \E f \in IdEnds(url, e) : Fit(url, shape, i, e, f)

Fits(url, shape) == \E i \in 1..Len(url) : FitsAt(url, shape, i)

\* the owner of a shape found at i up to e: the bare shape's owner begins
\* with its did:
OwnerAt(url, shape, i, e) ==
  IF shape = "did_uri" THEN SubSeq(url, i, e) ELSE SubSeq(url, i + 1, e)

\* list_info is what the shape gives where it first occurs in url
DecidedBy(url, shape) ==
  \E i \in 1..Len(url) :
    /\ FitsAt(url, shape, i)
    /\ \A j \in 1..(i - 1) : ~FitsAt(url, shape, j)
    /\ \E e \in OwnerEnds(url, i) :
         /\ url[e + 1] = ShapeSeparator(shape)
         /\ \E f \in IdEnds(url, e) :
              /\ Fit(url, shape, i, e, f)
              /\ list_info.shape = shape
              /\ list_info.handle = StripGroup(OwnerAt(url, shape, i, e))
              /\ list_info.list_id = StripGroup(SubSeq(url, e + 2, f))

ViaUrl == reports # << >> /\ reports[1].label = "Processed list URL:"

\* a line of the report prints the value
Reported(value) == \E k \in 1..Len(reports) : reports[k].value = value

\* C29: for a locator that matches none of the accepted shapes,
\* get_posts_from_bluesky_list_url returns an empty ResultSet, reports the
\* input with the accepted formats, and makes no profile, list or feed
\* request: the list fetch is never entered.
C29_UnrecognizedLocatorReportedNoCall ==
  ViaUrl /\ list_info.shape = "none" =>
    /\ pc = "done"
    /\ results = EmptyResults
    /\ Reported(list_info.input)
    /\ \A n \in 1..Len(SupportedFormats) : Reported(<< SupportedFormats[n] >>)
    /\ op = "get_posts_from_bluesky_list_url"
    /\ list_handle = << >>
    /\ lookups = << >>
    /\ pages = << >>
    /\ fetches = << >>

\* a web URL of another site, pasted in quotes, was refused
C29_Witness ==
  /\ ViaUrl
  /\ list_info.shape = "none"
  /\ pc = "done"
  /\ list_url =
       << "\"" >> \o OtherSiteUrl(Chars("bob"), << "x", "1" >>) \o << "\"" >>
  /\ list_info.input = OtherSiteUrl(Chars("bob"), << "x", "1" >>)

\* owner and list id as they stand in the locator given
RawGroups(url) ==
  IF re_search(url, 1, "browser") # NoGroups THEN re_search(url, 1, "browser")
  ELSE IF re_search(url, 1, "at_uri") # NoGroups
    THEN re_search(url, 1, "at_uri")
  ELSE re_search(url, 1, "did_uri")

\* get_posts_from_bluesky_list(owner, id, n), against the API that knows
\* the list under the addresses of accepted and answers profile lookups,
\* gets as far as its page calls
DirectCallFetches(owner, id) ==
  /\ Resolved(owner, TRUE)
  /\ \/ CanonicalUri(owner, id) \in accepted
     \/ AltUri(owner, id) \in accepted

\* C30: against the same API state get_posts_from_bluesky_list_url(url, n)
\* returns the ResultSet that get_posts_from_bluesky_list(owner, list_id, n)
\* returns for the owner and list id that appear in url; so where the former
\* returns posts, the latter reaches its page calls.
C30_UrlCallReturnsWhatDirectCallReturns ==
  ViaUrl /\ pc = "done" /\ results # EmptyResults =>
    /\ RawGroups(list_url) # NoGroups
    /\ DirectCallFetches(RawGroups(list_url).group1,
                         RawGroups(list_url).group2)

\* the same, of the locators in which the owner needs no cleaning
C30_CleanOwner ==
  RawGroups(list_url) # NoGroups
    /\ sanitize_uri_component(RawGroups(list_url).group1)
         = RawGroups(list_url).group1
    => C30_UrlCallReturnsWhatDirectCallReturns


\* the page calls of the fetch that page call i belongs to, before call i
Earlier(i) == { k \in 1..(i - 1) : SameFetch(pages[k], pages[i]) }

\* C33: the page calls of a fetch are chained by their cursors: the first
\* carries no cursor and each later one carries the cursor that the call
\* just before it returned, which is a cursor and not the absence of one
C33_CursorChain ==
  \A i \in 1..Len(pages) :
    IF Earlier(i) = {}
      THEN pages[i].cursor = NoCursor
      ELSE LET k == CHOOSE m \in Earlier(i) : \A o \in Earlier(i) : o <= m
           IN  ~pages[k].err =>
                 /\ pages[i].cursor = pages[k].next
                 /\ pages[i].cursor # NoCursor


\* C34: no address handed to a get_list lookup or to a list feed page call
\* contains a single or a double quote, whatever quotes the owner and the
\* list id came with
C34_NoQuoteInAnyAddress ==
  /\ \A i \in 1..Len(lookups) : ~HasQuote(lookups[i].addr)
  /\ \A i \in 1..Len(pages) :
       pages[i].api = "get_list_feed" => ~HasQuote(pages[i].target)

\* a list whose owner and id came with quotes, inside the id too, was
\* looked up under two addresses and its feed was then paged
C34_Witness ==
  /\ HasQuote(list_handle)
  /\ \E i \in 2..Len(list_id) - 1 : list_id[i] \in QuoteChars
  /\ Len(lookups) = 2
  /\ \E i \in 1..Len(pages) : pages[i].api = "get_list_feed"


\* C37: every list feed page call of get_posts_from_bluesky_list takes the
\* address under which the get_list lookup of the request succeeded, never
\* an address whose lookup failed
C37_PagesUseTheAcceptedAddress ==
  ListOp =>
    \A i \in 1..Len(pages) :
      pages[i].api = "get_list_feed" =>
        /\ \E k \in 1..Len(lookups) :
             lookups[k].ok /\ lookups[k].addr = pages[i].target
        /\ \A k \in 1..Len(lookups) :
             lookups[k].addr = pages[i].target => lookups[k].ok


\* every page response held at most as many items as the call asked for
PagesWithinLimit == \A i \in 1..Len(pages) : pages[i].n <= pages[i].limit

\* C36: when no page response holds more items than its call asked for, a
\* fetch of n > 0 posts returns at most n posts (get_user_posts,
\* search_posts, get_posts_from_bluesky_list, the direct path of
\* get_list_feed)
C36_NeverMoreThanRequested ==
  ( /\ pc = "done"
    /\ requested > 0
    /\ PagesWithinLimit
    /\ op \in FetchOps \/ (FeedOp /\ ~FallbackStarted) ) =>
    /\ Len(returned) <= requested
    /\ ResultSize(results) <= requested


\* C38: in the membership fallback with m >= 1 members and n requested
\* posts, when no page response holds more items than its call asked for,
\* each member contributes at most max(1, n // m) posts and the ResultSet
\* holds at most max(n, m) posts
C38_FallbackBounds ==
  (FeedOp /\ members # << >> /\ PagesWithinLimit) =>
    /\ \A h \in DOMAIN results :
         Len(results[h]) <= Max(1, requested \div Len(members))
    /\ ResultSize(results) <= Max(requested, Len(members))

\* one post was requested from a list of two members, and each member
\* brought one
C38_Witness ==
  /\ FeedOp
  /\ pc = "done"
  /\ PagesWithinLimit
  /\ requested = 1
  /\ Len(members) = 2
  /\ \A j \in 1..Len(members) :
       /\ members[j] \in DOMAIN results
       /\ Len(results[members[j]]) = Max(1, requested \div Len(members))
  /\ ResultSize(results) = Max(requested, Len(members))


(***************************************************************************)
(* main() of the command line: authentication, the fetch of the target,    *)
(* the export.  A file target repeats the fetch of a handle target for     *)
(* every line of the file and is left out.                                 *)
(***************************************************************************)
CliTargets == { "handle", "list", "search" }
ExportFormats == { "json", "csv", "parquet" }
\* --limit: one post, and what needs a second page
CliLimits == { 1, MaxLimit }

CommandLines ==
  [ target : CliTargets, limit : CliLimits, export : ExportFormats ]

\* --handle
CliHandle == "bob"

CliInit ==
  /\ me \in Sessions
  /\ argv \in CommandLines
  /\ called = << >>
  /\ exit_code = NoExit
  /\ input_str = << >>
  /\ outputs = << >>
  /\ NoRecord
  /\ NoLocator
  /\ Fresh

\* the fetcher is made and asked whether it is authenticated
CliAuthenticate ==
  /\ called = << >>
  /\ exit_code = NoExit
  /\ called' = << "is_authenticated" >>
  /\ exit_code' = IF me = NoOne THEN 1 ELSE NoExit
  /\ UNCHANGED << me, input_str, outputs, normv, locator, searchv, argv, pc,
                  args, loop, pages, listv, users, out >>

\* the branch of the target, up to the call of the fetcher: the method the
\* list branch names, get_list_posts, is none of the fetcher, and the
\* AttributeError ends main() in its except
CliDispatch ==
  /\ called = << "is_authenticated" >>
  /\ exit_code = NoExit
  /\ IF argv.target = "list"
       THEN /\ exit_code' = 1
            /\ UNCHANGED called
       ELSE /\ called' = Append(called,
                           IF argv.target = "handle" THEN "get_user_posts"
                           ELSE "search_posts")
            /\ UNCHANGED exit_code
  /\ UNCHANGED << me, input_str, outputs, normv, locator, searchv, argv, pc,
                  args, loop, pages, listv, users, out >>

\* fetcher.export_to_json, export_to_csv, export_to_parquet
ExportMethod(format) ==
  CASE format = "json" -> "export_to_json"
    [] format = "csv" -> "export_to_csv"
    [] format = "parquet" -> "export_to_parquet"

\* fetcher.get_user_posts(args.handle, args.limit)
CliUserPosts(ok, bad) ==
  /\ called # << >>
  /\ called[Len(called)] = "get_user_posts"
  /\ CallUserPosts(CliHandle, argv.limit, ok, bad)

\* fetcher.search_posts(args.search, args.limit), no filter given
CliSearchPosts(bad) ==
  /\ called # << >>
  /\ called[Len(called)] = "search_posts"
  /\ CallSearchPosts(argv.limit, << >>, bad, NoKwargs)

\* after the fetch: "No posts found", or the export in the format asked for
CliFinish ==
  /\ pc = "done"
  /\ exit_code = NoExit
  /\ exit_code' = 0
  /\ called' = IF returned = << >> THEN called
               ELSE Append(called, ExportMethod(argv.export))
  /\ UNCHANGED << me, input_str, outputs, normv, locator, searchv, argv, pc,
                  args, loop, pages, listv, users, out >>

CliNext ==
  \/ CliAuthenticate
  \/ CliDispatch
  \/ \E ok \in BOOLEAN, bad \in MalformedSets : CliUserPosts(ok, bad)
  \/ \E n \in 0..PageCap, has_cursor \in BOOLEAN : UserPage(n, has_cursor)
  \/ UserPageError
  \/ UserReturn
  \/ \E bad \in MalformedSets : CliSearchPosts(bad)
  \/ \E n \in 0..PageCap, has_cursor \in BOOLEAN : SearchPage(n, has_cursor)
  \/ \E n \in 0..PageCap, has_cursor \in BOOLEAN :
       SearchPageRaises(n, has_cursor)
  \/ SearchPageError
  \/ SearchReturn
  \/ CliFinish

CliSpec == CliInit /\ [][CliNext]_vars

(***************************************************************************)
(* A search called with a sort option.                                     *)
(***************************************************************************)
SearchNext ==
  \/ \E limit \in Limits, fu \in FromUsers, kw \in SortOptions :
       CallSearchPosts(limit, fu, {}, kw)
  \/ \E n \in 0..PageCap, has_cursor \in BOOLEAN : SearchPage(n, has_cursor)
  \/ SearchPageError
  \/ SearchReturn

SearchSpec == Init /\ [][SearchNext]_vars

\* C31: every page call of a search carries the sort option of the caller,
\* 'latest' or 'top', and 'latest' when the caller gave none
C31_EveryPageCallCarriesSort ==
  (op = "search_posts" /\ pages # << >>) =>
    /\ "sort" \in DOMAIN search_params
    /\ search_params["sort"] =
         << IF "sort" \in DOMAIN kwargs THEN kwargs["sort"] ELSE "latest" >>


\* C35: every post a search with a domain filter returns has an extracted
\* url that contains the domain, letter case set aside; a post without
\* such a url is left out
C35_DomainFilterKeepsMatchingOnly ==
  path = "search_posts with domain" =>
    \A i \in 1..Len(post_list) :
      DomainInUrls(kwargs["domain"], post_list[i].urls)


(***************************************************************************)
(* What the exported post keeps of the post.                               *)
(***************************************************************************)
PackageExporters ==
  { "save_results_to_json", "save_results_to_csv", "save_results_to_parquet" }

\* the elements a reader gets from an exported array
Elements(cell) ==
  IF "text" \in DOMAIN cell
    THEN SelectSeq(cell.text, LAMBDA c : c \notin { "[", "]", "\"", ",", ", " })
    ELSE cell.items

\* C32: the post exported as JSON, CSV or Parquet keeps the fields of the
\* post: its uri, its author, its post_type, whom it replies to when it is
\* a reply, and urls, mentions and images with the same elements in the
\* same order
C32_ExportKeepsEveryField ==
  exporter \in PackageExporters =>
    LET post == post_list[1]
    IN  /\ exported.uri = post.uri
        /\ exported.author_did = post.author.did
        /\ exported.author_handle = post.author.handle
        /\ exported.post_type = post.post_type
        /\ \A k \in { "urls", "mentions", "images" } :
             /\ k \in DOMAIN exported
             /\ Elements(exported[k]) = Field(post, k)
        /\ \A k \in { "replied_to_id", "replied_to_handle" } :
             (post.post_type = "reply" /\ k \in DOMAIN post) =>
               (k \in DOMAIN exported /\ exported[k] = post[k])

\* the same of the CSV file alone
C32_CsvKeepsEveryField ==
  exporter = "save_results_to_csv" => C32_ExportKeepsEveryField


\* the methods of the fetcher that fetch the posts of a list
ListFetchMethods ==
  { "get_list_posts", "get_posts_from_bluesky_list_url",
    "get_posts_from_bluesky_list" }

ExportMethods == { ExportMethod(f) : f \in ExportFormats }

\* C39: run with a list target, main() with a successful authentication
\* fetches the posts of the list through the fetcher and, when posts were
\* found, exports them and returns 0; with a failed authentication it
\* returns 1 and has made no fetch call
C39_ListTargetFetchesThenExports ==
  (called # << >> /\ argv.target = "list" /\ exit_code # NoExit) =>
    IF me = NoOne
      THEN /\ exit_code = 1
           /\ called = << "is_authenticated" >>
           /\ op = "none"
           /\ pages = << >>
      ELSE /\ \E i \in 1..Len(called) : called[i] \in ListFetchMethods
           /\ (returned # << >> \/ DOMAIN results # {}) =>
                /\ exit_code = 0
                /\ called[Len(called)] \in ExportMethods

\* the part of C39 about a failed authentication, for every target
C39_NoFetchWithoutAuthentication ==
  (called # << >> /\ me = NoOne /\ exit_code # NoExit) =>
    /\ exit_code = 1
    /\ called = << "is_authenticated" >>
    /\ op = "none"
    /\ pages = << >>

==============================================================================
